---- MODULE Spec2Model ----
(***************************************************************************)
(* Capture -> dedupe -> fingerprint -> diff -> generate pipeline of the    *)
(* playwright-test-framework: RequestInterceptor (traffic recorder),       *)
(* APIChangeDetector (baseline diff) and APITestGenerator (test names).    *)
(*                                                                         *)
(* Text (URLs, methods, identifiers) is modelled as sequences of           *)
(* one-character strings, so that split, find, strip, lower and the URL    *)
(* parser are computed character by character as the code computes them.   *)
(***************************************************************************)
EXTENDS Integers, Sequences, FiniteSets, TLC

VARIABLES
    \* ---- APIChangeDetector ----
    file,                  \* the baseline file data/.api_cache.json
    detectors,             \* per detector object: constructed?, cached_apis
    lastRun,               \* the detect_changes call of the last step: arguments, result
    op,                    \* the operation the last step performed
    cleared,               \* detectors that cleared, or were constructed after a
                           \* clear_cache that returned, with no detection run since
    saving,                \* detectors inside _save_cache: the file is open for
                           \* writing and the baseline is not written yet
    \* ---- RequestInterceptor ----
    deduplicate,           \* constructor argument of the session's interceptor
    intercepted_requests,  \* the session sequence
    request_signatures,    \* the dedupe set (_request_signatures)
    handled,               \* history: the events that passed _should_intercept
    lastRoute,             \* the steps of the last handler run that raised or
                           \* resolved the route, in the order they were made
    coroutines,            \* the handler runs under way: position, event, appended?
    \* ---- UITestBase sessions and the directory data/requests ----
    sessions,              \* per test session: interceptor, its sequence, page, context
    batch_dir,             \* the batch file of each name requests_<timestamp>.json
    clock,                 \* the wall clock, in ticks
    lastFlush,             \* the teardown_method call of the last step
    \* ---- APITestGenerator ----
    gen_requests,          \* the batch given to _generate_test_file
    gen_names,             \* the function names it emitted, in order
    gen_suite,             \* the suite text it returned: header count, functions
    out_file,              \* the output file of the generator
    gen_ret,               \* the last generate_from_* call: source, result
    wf,                    \* SmartTestRunner.run_full_workflow: stage, results so far
    \* ---- signature / fingerprint applied to a pair of records ----
    fp_in,
    fp_out,
    \* ---- a pure function applied to one input ----
    arg,
    ret

detVars == <<file, detectors, lastRun, op, cleared, saving>>
flushVars == <<sessions, batch_dir, clock, lastFlush>>
recVars == <<deduplicate, intercepted_requests, request_signatures, handled, lastRoute,
             coroutines, sessions, batch_dir, clock, lastFlush>>
genVars == <<gen_requests, gen_names, gen_suite, out_file, gen_ret, wf>>
fpVars  == <<fp_in, fp_out, arg, ret>>
vars    == <<file, detectors, lastRun, op, cleared, saving,
             deduplicate, intercepted_requests, request_signatures, handled, lastRoute,
             coroutines, sessions, batch_dir, clock, lastFlush,
             gen_requests, gen_names, gen_suite, out_file, gen_ret, wf,
             fp_in, fp_out, arg, ret>>

(***************************************************************************)
(* Text primitives (Python str operations used by the code).               *)
(***************************************************************************)
UpperChars == <<"A","B","C","D","E","F","G","H","I","J","K","L","M",
                "N","O","P","Q","R","S","T","U","V","W","X","Y","Z">>
LowerChars == <<"a","b","c","d","e","f","g","h","i","j","k","l","m",
                "n","o","p","q","r","s","t","u","v","w","x","y","z">>
DigitChars == <<"0","1","2","3","4","5","6","7","8","9">>

Range(s) == {s[i] : i \in DOMAIN s}

isalpha(c) == c \in Range(UpperChars) \cup Range(LowerChars)

isalnum(c) == isalpha(c) \/ c \in Range(DigitChars)

\* str.lower() on one character, then on a string
lower_char(c) ==
    IF c \in Range(UpperChars)
    THEN LowerChars[CHOOSE i \in DOMAIN UpperChars : UpperChars[i] = c]
    ELSE c

lower(s) == [i \in DOMAIN s |-> lower_char(s[i])]

\* s.find(c): 1-based index of the first c in s, 0 when there is none
find(s, c) ==
    IF \E i \in DOMAIN s : s[i] = c
    THEN CHOOSE i \in DOMAIN s : s[i] = c /\ \A j \in 1..(i - 1) : s[j] # c
    ELSE 0

\* s.rfind(c): 1-based index of the last c in s, 0 when there is none
rfind(s, c) ==
    IF \E i \in DOMAIN s : s[i] = c
    THEN CHOOSE i \in DOMAIN s : s[i] = c /\ \A j \in (i + 1)..Len(s) : s[j] # c
    ELSE 0

\* s.split(c)[0]
split_first(s, c) ==
    IF find(s, c) = 0 THEN s ELSE SubSeq(s, 1, find(s, c) - 1)

\* s.split(c)[-1]
split_last(s, c) == SubSeq(s, rfind(s, c) + 1, Len(s))

\* sub in s
contains(s, sub) ==
    \E i \in 0..(Len(s) - Len(sub)) : SubSeq(s, i + 1, i + Len(sub)) = sub

\* str(n) for a natural number n
RECURSIVE str(_)
str(n) == IF n < 10 THEN <<DigitChars[n + 1]>>
          ELSE str(n \div 10) \o <<DigitChars[(n % 10) + 1]>>

(***************************************************************************)
(* urllib.parse.urlparse(url).path                                         *)
(***************************************************************************)
SchemeChars == Range(UpperChars) \cup Range(LowerChars) \cup Range(DigitChars)
                 \cup {"+", "-", "."}

HTTP  == <<"h","t","t","p">>
HTTPS == <<"h","t","t","p","s">>

\* urlsplit: "scheme:" is split off when the text before the first ':' is a
\* letter followed by scheme characters
url_scheme(url) ==
    LET i == find(url, ":")
    IN  IF i > 1 /\ isalpha(url[1]) /\ \A k \in 1..(i - 1) : url[k] \in SchemeChars
        THEN lower(SubSeq(url, 1, i - 1))
        ELSE <<>>

url_after_scheme(url) ==
    LET i == find(url, ":")
    IN  IF i > 1 /\ isalpha(url[1]) /\ \A k \in 1..(i - 1) : url[k] \in SchemeChars
        THEN SubSeq(url, i + 1, Len(url))
        ELSE url

\* urlsplit: "//netloc" is split off up to the first of '/', '?', '#'
url_after_netloc(rest) ==
    IF Len(rest) >= 2 /\ rest[1] = "/" /\ rest[2] = "/"
    THEN LET r == SubSeq(rest, 3, Len(rest))
             stops == {i \in DOMAIN r : r[i] \in {"/", "?", "#"}}
         IN  IF stops = {} THEN <<>>
             ELSE SubSeq(r, CHOOSE i \in stops : \A j \in stops : i <= j, Len(r))
    ELSE rest

\* urlparse: ";params" of the last path segment are split off
url_splitparams(path) ==
    LET slash == rfind(path, "/")
        tail  == SubSeq(path, slash + 1, Len(path))
        semi  == find(tail, ";")
    IN  IF semi = 0 THEN path ELSE SubSeq(path, 1, slash + semi - 1)

urlparse_path(url) ==
    LET p == split_first(split_first(url_after_netloc(url_after_scheme(url)), "#"), "?")
    IN  IF url_scheme(url) \in {<<>>, HTTP, HTTPS} THEN url_splitparams(p) ELSE p

(***************************************************************************)
(* CapturedRequest records, as _handle_route builds them and as the batch  *)
(* file holds them.                                                        *)
(***************************************************************************)
GET  == <<"G","E","T">>
POST == <<"P","O","S","T">>

HostA == <<"a",".","i","o">>
HostB == <<"b",".","i","o">>
HostC == <<"c",".","i","o">>

PathUsers  == <<"/","u","s","e","r","s">>
PathUsers1 == <<"/","u","s","e","r","s","_","1">>
PathPosts  == <<"/","p","o","s","t","s">>

QNone == <<>>
QX    == <<"x","=","1">>
QY    == <<"y","=","2">>

\* request.url of an absolute http URL: scheme, host, path, optional ?query
MkUrl(host, path, query) ==
    HTTP \o <<":", "/", "/">> \o host \o path
         \o (IF query = <<>> THEN <<>> ELSE <<"?">> \o query)

\* request body: absent, a JSON object (its field names in recorded order),
\* or a raw string
BodyAbsent       == [kind |-> "absent", keys |-> <<>>]
BodyObject(keys) == [kind |-> "object", keys |-> keys]
BodyText         == [kind |-> "text",   keys |-> <<>>]

\* response: absent, or a status with an optional body (a JSON object or text)
RespAbsent == [present |-> FALSE, status |-> 0, body_kind |-> "absent"]
Resp(status, body_kind) == [present |-> TRUE, status |-> status, body_kind |-> body_kind]

Req(ts, method, url, headers, rtype, body, response) ==
    [timestamp |-> ts, method |-> method, url |-> url, headers |-> headers,
     resource_type |-> rtype, body |-> body, response |-> response]

HeaderOrders == { <<"accept", "cookie">>, <<"cookie", "accept">> }

(***************************************************************************)
(* APIChangeDetector: signature and fingerprint                            *)
(***************************************************************************)
\* the mutant of _generate_api_signature: the query string is not stripped
sig_with_query(request) ==
    request.method \o <<":">>
        \o split_first(url_after_netloc(url_after_scheme(request.url)), "#")

_generate_api_signature(request) ==
    request.method \o <<":">> \o urlparse_path(request.url)

\* the mutant of key_info: the capture time enters the hashed projection
key_info_with_timestamp(request) ==
    [method          |-> request.method,
     url             |-> split_first(request.url, "?"),
     body_keys       |-> IF request.body.kind = "object"
                         THEN <<"list", request.body.keys>> ELSE <<"null">>,
     response_status |-> IF request.response.present
                         THEN <<"int", request.response.status, request.timestamp>>
                         ELSE <<"null">>]

\* the projection of a record that is hashed
key_info(request) ==
    [method          |-> request.method,
     url             |-> split_first(request.url, "?"),
     body_keys       |-> IF request.body.kind = "object"
                         THEN <<"list", request.body.keys>> ELSE <<"null">>,
     response_status |-> IF request.response.present
                         THEN <<"int", request.response.status>> ELSE <<"null">>]

\* json.dumps(key_info, sort_keys=True): the values in the order of the sorted keys
json_dumps_sorted(info) ==
    <<info.body_keys, info.method, info.response_status, info.url>>

\* hashlib.md5(...).hexdigest(): the digest is identified with the text digested
\* (MD5 is taken to be collision-free on the records of the model)
md5_hexdigest(text) == <<"md5", text>>

_generate_request_hash(request) == md5_hexdigest(json_dumps_sorted(key_info(request)))

(***************************************************************************)
(* Signature and fingerprint applied to a pair of records                  *)
(***************************************************************************)
MaxTimestamp == 2

FpHosts   == {HostA, HostB}
FpPaths   == {PathUsers, PathPosts}
FpQueries == {QNone, QX, QY}
FpBodies  == {BodyAbsent, BodyObject(<<"id", "title">>), BodyObject(<<"title", "id">>)}
FpResps   == {RespAbsent, Resp(200, "object"), Resp(404, "text")}

FpRecords ==
    { Req(ts, GET, MkUrl(h, p, q), hd, "xhr", b, rs) :
        ts \in 1..MaxTimestamp, h \in FpHosts, p \in FpPaths, q \in FpQueries,
        hd \in HeaderOrders, b \in FpBodies, rs \in FpResps }

FpAnchors ==
    { Req(1, m, MkUrl(HostA, PathUsers, q), <<"accept", "cookie">>, "xhr", b, Resp(200, "object")) :
        m \in {GET, POST}, q \in {QNone, QX}, b \in {BodyAbsent, BodyObject(<<"id", "title">>)} }

Detectors == {"d1", "d2"}

NoRun == [det |-> "none", batch |-> <<>>, new |-> <<>>, changed |-> <<>>,
          has |-> FALSE, save |-> "none", fresh |-> FALSE]

FileAbsent == [kind |-> "absent", data |-> {}]

\* the directory of the baseline file does not exist
NoDirectory == [kind |-> "no_directory", data |-> {}]

DetIdle ==
    /\ file = FileAbsent
    /\ detectors = [d \in Detectors |-> [alive |-> FALSE, cached_apis |-> {}]]
    /\ lastRun = NoRun
    /\ op = "init"
    /\ cleared = {}
    /\ saving = {}

Sessions == {"s1", "s2"}

MaxClock == 3

\* the ticks of the clock in one second, the resolution of get_timestamp
TicksPerSecond == 2

\* helpers.get_timestamp: strftime("%Y%m%d_%H%M%S") keeps the whole seconds
get_timestamp(t) == t \div TicksPerSecond

Timestamps == {get_timestamp(t) : t \in 0..MaxClock}

NoFile == [kind |-> "absent", total |-> 0, requests |-> <<>>, by |-> "none"]

NoSession == [phase |-> "none", interceptor |-> FALSE, intercepted_requests |-> <<>>,
              page |-> "none", context |-> "none"]

NoFlush == [session |-> "none", saved |-> FALSE, outcome |-> "none", filename |-> 0]

FlushIdle ==
    /\ sessions = [s \in Sessions |-> NoSession]
    /\ batch_dir = [n \in Timestamps |-> NoFile]
    /\ clock = 0
    /\ lastFlush = NoFlush

Handlers == {"h1", "h2"}

NoCoroutine ==
    [pc |-> "idle",
     event |-> [method |-> <<>>, url |-> <<>>, resource_type |-> "none",
                headers |-> <<>>, post_data |-> [kind |-> "absent", keys |-> <<>>],
                status |-> 0],
     appended |-> FALSE]

RecIdle ==
    /\ deduplicate = TRUE
    /\ intercepted_requests = <<>>
    /\ request_signatures = {}
    /\ handled = <<>>
    /\ lastRoute = <<>>
    /\ coroutines = [h \in Handlers |-> NoCoroutine]
    /\ FlushIdle

\* no suite text; no output file; no generate_from_* call yet
NoSuite == [count |-> 0, functions |-> <<>>]

OutAbsent == [kind |-> "absent", code |-> NoSuite]

NoCall == [call |-> "none", source |-> [kind |-> "none", requests |-> <<>>],
           result |-> "none"]

\* no workflow run yet
NoWorkflow ==
    [pc |-> "none", run |-> 0, ui_success |-> FALSE,
     latest |-> [kind |-> "none", requests |-> <<>>],
     has_changes |-> FALSE, committed |-> FALSE, regenerated |-> FALSE,
     api_ran |-> FALSE, api_success |-> FALSE, result |-> FALSE]

GenIdle ==
    /\ gen_requests = <<>>
    /\ gen_names = <<>>
    /\ gen_suite = NoSuite
    /\ out_file = OutAbsent
    /\ gen_ret = NoCall
    /\ wf = NoWorkflow

FpIdle ==
    /\ fp_in = <<>>
    /\ fp_out = <<>>
    /\ arg = <<>>
    /\ ret = <<>>

InitFingerprint ==
    /\ fp_in \in FpAnchors \X FpRecords
    /\ fp_out = <<>>
    /\ arg = <<>>
    /\ ret = <<>>
    /\ DetIdle /\ RecIdle /\ GenIdle

\* detect_changes, lines 110-111, on each record of the pair
ApplyFingerprint ==
    /\ fp_out = <<>>
    /\ fp_out' = [i \in 1..2 |->
                    [signature |-> _generate_api_signature(fp_in[i]),
                     hash      |-> _generate_request_hash(fp_in[i])]]
    /\ UNCHANGED <<fp_in, arg, ret, detVars, recVars, genVars>>

NextFingerprint == ApplyFingerprint

SpecFingerprint == InitFingerprint /\ [][NextFingerprint]_vars

\* _generate_api_signature applied to one record, whose method is spelled in
\* any letter case
SigMethods == { GET, <<"g","e","t">>, <<"G","e","t">>, POST, <<"p","o","s","t">> }
SigHosts   == {HostA, HostB, HostC}
SigPaths   == {PathUsers, PathUsers1, PathPosts}
SigQueries == {QNone, QX, QY}

InitSignature ==
    /\ arg \in [method : SigMethods, host : SigHosts, path : SigPaths, query : SigQueries]
    /\ ret = <<>>
    /\ fp_in = <<>> /\ fp_out = <<>>
    /\ DetIdle /\ RecIdle /\ GenIdle

ApplySignature ==
    /\ ret = <<>>
    /\ ret' = <<_generate_api_signature(
                    Req(1, arg.method, MkUrl(arg.host, arg.path, arg.query),
                        <<"accept", "cookie">>, "xhr", BodyAbsent, Resp(200, "object")))>>
    /\ UNCHANGED <<arg, fp_in, fp_out, detVars, recVars, genVars>>

NextSignature == ApplySignature

SpecSignature == InitSignature /\ [][NextSignature]_vars

\* a string with every lower-case letter replaced by its upper-case letter
UpperCased(s) ==
    [i \in DOMAIN s |->
        IF \E k \in DOMAIN LowerChars : LowerChars[k] = s[i]
        THEN UpperChars[CHOOSE k \in DOMAIN LowerChars : LowerChars[k] = s[i]]
        ELSE s[i]]

\* C30: the signature of a record is its method in upper case, a colon, and the
\* path of its URL without scheme, host and query string; so records whose
\* methods differ only in letter case and whose paths are equal get one signature.
SignatureFormat ==
    ret # <<>> => ret[1] = UpperCased(arg.method) \o <<":">> \o arg.path

\* C6: two records with the same method and the same URL path (same scheme and
\* host) that differ in their query strings get the same signature.
SignatureQueryIndependent ==
    fp_out # <<>> =>
        \A h \in FpHosts, p \in FpPaths, q1 \in FpQueries, q2 \in FpQueries :
            ( /\ fp_in[1].url = MkUrl(h, p, q1)
              /\ fp_in[2].url = MkUrl(h, p, q2)
              /\ fp_in[1].method = fp_in[2].method )
            => fp_out[1].signature = fp_out[2].signature

\* C6 witness: /users and /users?x=1 have both been given the signature GET:/users
SignatureQueryWitness ==
    /\ fp_out # <<>>
    /\ fp_in[1].method = GET /\ fp_in[2].method = GET
    /\ fp_in[1].url = MkUrl(HostA, PathUsers, QX)
    /\ fp_in[2].url = MkUrl(HostA, PathUsers, QNone)
    /\ fp_out[1].signature = GET \o <<":">> \o PathUsers
    /\ fp_out[2].signature = fp_out[1].signature

\* C31: two records that are identical except for the order of the fields of
\* their JSON-object body get the same fingerprint.
BodyFieldOrderIndependent ==
    ( /\ fp_out # <<>>
      /\ fp_in[1].body.kind = "object"
      /\ fp_in[2].body.kind = "object"
      /\ Len(fp_in[1].body.keys) = Len(fp_in[2].body.keys)
      /\ Range(fp_in[1].body.keys) = Range(fp_in[2].body.keys)
      /\ [fp_in[1] EXCEPT !.body = fp_in[2].body] = fp_in[2] )
    => fp_out[1].hash = fp_out[2].hash

SameHeaderMapping(h1, h2) == Len(h1) = Len(h2) /\ Range(h1) = Range(h2)

\* the two records differ at most in timestamp and in the order of the headers
SameButTimestampAndHeaderOrder(r1, r2) ==
    /\ SameHeaderMapping(r1.headers, r2.headers)
    /\ [r1 EXCEPT !.timestamp = r2.timestamp, !.headers = r2.headers] = r2

\* the two records agree on method, URL without query string, body field names
\* (as recorded) and response status
SameHashedInputs(r1, r2) ==
    /\ r1.method = r2.method
    /\ \E h \in FpHosts, p \in FpPaths, q1 \in FpQueries, q2 \in FpQueries :
          r1.url = MkUrl(h, p, q1) /\ r2.url = MkUrl(h, p, q2)
    /\ r1.body.kind = "object" <=> r2.body.kind = "object"
    /\ r1.body.kind = "object" => r1.body.keys = r2.body.keys
    /\ r1.response.present = r2.response.present
    /\ r1.response.present => r1.response.status = r2.response.status

\* C7: records that are identical except for timestamp and header order get the
\* same fingerprint, and so do any two records that agree on method, URL without
\* query string, body field names and response status.
FingerprintNonInterference ==
    fp_out # <<>> =>
        /\ SameButTimestampAndHeaderOrder(fp_in[1], fp_in[2])
              => fp_out[1].hash = fp_out[2].hash
        /\ SameHashedInputs(fp_in[1], fp_in[2])
              => fp_out[1].hash = fp_out[2].hash

\* C7 witness: two records differing in timestamp, header order and query string
\* have been fingerprinted, with equal results
FingerprintWitness ==
    /\ fp_out # <<>>
    /\ fp_in[1].timestamp # fp_in[2].timestamp
    /\ fp_in[1].headers # fp_in[2].headers
    /\ fp_in[1].url # fp_in[2].url
    /\ SameButTimestampAndHeaderOrder(fp_in[1], [fp_in[2] EXCEPT !.url = fp_in[1].url])
    /\ SameHashedInputs(fp_in[1], fp_in[2])
    /\ fp_out[1].hash = fp_out[2].hash

(***************************************************************************)
(* APIChangeDetector: baseline file, construction, detect_changes,         *)
(* clear_cache.  A baseline (dict signature -> hash) is a set of           *)
(* <<signature, hash>> pairs with at most one pair per signature.  The     *)
(* file is absent, holds a baseline, or holds text json.load rejects       *)
(* ("corrupt": what an interrupted json.dump leaves behind).               *)
(***************************************************************************)
Keys(m) == {p[1] : p \in m}

Lookup(m, k) == (CHOOSE p \in m : p[1] = k)[2]

\* dict.update
dict_update(m, n) == {p \in m : p[1] \notin Keys(n)} \cup n

FileValid(m) == [kind |-> "valid", data |-> m]
FileCorrupt  == [kind |-> "corrupt", data |-> {}]

\* the keys the persisted baseline holds
FileKeys(f) == IF f.kind = "valid" THEN Keys(f.data) ELSE {}

_load_cache(f) == IF f.kind = "valid" THEN f.data ELSE {}

\* _save_cache: open(..., 'w') may raise (the file is left as it was), json.dump
\* may be cut short after open truncated the file; both errors are logged only
SaveOutcomes == {"ok", "open_fails", "write_fails"}

_save_cache(f, cached, outcome) ==
    CASE outcome = "ok"          -> FileValid(cached)
      [] outcome = "open_fails"  -> f
      [] outcome = "write_fails" -> FileCorrupt

MaxBatch == 2

\* the records a batch may hold, by number: /users on host a, the same with a
\* query string and a later timestamp, /users on host b, /posts on host a
DetRecord ==
    << Req(1, GET, MkUrl(HostA, PathUsers, QNone), <<"accept", "cookie">>, "xhr",
           BodyAbsent, Resp(200, "object")),
       Req(2, GET, MkUrl(HostA, PathUsers, QX), <<"accept", "cookie">>, "xhr",
           BodyAbsent, Resp(200, "object")),
       Req(1, GET, MkUrl(HostB, PathUsers, QNone), <<"accept", "cookie">>, "xhr",
           BodyAbsent, Resp(200, "object")),
       Req(1, GET, MkUrl(HostA, PathPosts, QNone), <<"accept", "cookie">>, "xhr",
           BodyAbsent, Resp(200, "object")) >>

DetRecords == DOMAIN DetRecord

Batches == UNION { [1..n -> DetRecords] : n \in 0..MaxBatch }

\* the signature and the hash of each record a batch may hold (lines 110-111)
signature_of == [r \in DetRecords |-> _generate_api_signature(DetRecord[r])]
hash_of      == [r \in DetRecords |-> _generate_request_hash(DetRecord[r])]

\* the mutant of current_signatures: the hash of the first record of each
\* signature is kept
RECURSIVE current_signatures_first(_)
current_signatures_first(requests) ==
    IF requests = <<>> THEN {}
    ELSE dict_update(current_signatures_first(Tail(requests)),
                     {<<signature_of[Head(requests)], hash_of[Head(requests)]>>})

\* the loop's current_signatures: the hash of the last record of each signature
RECURSIVE current_signatures(_)
current_signatures(requests) ==
    IF requests = <<>> THEN {}
    ELSE LET n    == Len(requests)
             last == requests[n]
         IN  dict_update(current_signatures(SubSeq(requests, 1, n - 1)),
                         {<<signature_of[last], hash_of[last]>>})

is_new(cached, request) == signature_of[request] \notin Keys(cached)

\* the mutant of is_changed: every record whose signature is known is changed
is_changed_whenever_known(cached, request) == signature_of[request] \in Keys(cached)

is_changed(cached, request) ==
    /\ signature_of[request] \in Keys(cached)
    /\ Lookup(cached, signature_of[request]) # hash_of[request]

new_requests(cached, requests) ==
    LET Test(r) == is_new(cached, r) IN SelectSeq(requests, Test)

changed_requests(cached, requests) ==
    LET Test(r) == is_changed(cached, r) IN SelectSeq(requests, Test)

has_changes(cached, requests) ==
    Len(new_requests(cached, requests)) > 0 \/ Len(changed_requests(cached, requests)) > 0

\* the mutant of should_save: the baseline is updated and saved on every run
should_save_always(cached, requests) == TRUE

\* line 126: the baseline is updated and saved only when there are changes
should_save(cached, requests) == has_changes(cached, requests)

\* cache_file.parent.mkdir(parents=True, exist_ok=True), line 27: a missing
\* directory is created, an existing one is left alone
mkdir_parents(f) == IF f.kind = "no_directory" THEN FileAbsent ELSE f

\* APIChangeDetector(): __init__ makes the directory and loads the baseline file
Construct(d) ==
    /\ file' = mkdir_parents(file)
    /\ detectors' = [detectors EXCEPT ![d] =
                        [alive |-> TRUE, cached_apis |-> _load_cache(file')]]
    /\ op' = "construct"
    /\ lastRun' = NoRun
    /\ cleared' = IF cleared # {} THEN cleared \cup {d} ELSE {}
    /\ UNCHANGED <<saving, recVars, genVars, fpVars>>

\* detect_changes(requests) by detector d
Detect(d, requests, outcome) ==
    /\ detectors[d].alive
    /\ LET cached == detectors[d].cached_apis
           save   == should_save(cached, requests)
           after  == IF save THEN dict_update(cached, current_signatures(requests))
                     ELSE cached
       IN  /\ ~save => outcome = "ok"
           /\ detectors' = [detectors EXCEPT ![d].cached_apis = after]
           /\ file' = IF save THEN _save_cache(file, after, outcome) ELSE file
           /\ lastRun' = [det     |-> d,
                          batch   |-> requests,
                          new     |-> new_requests(cached, requests),
                          changed |-> changed_requests(cached, requests),
                          has     |-> has_changes(cached, requests),
                          save    |-> IF save THEN outcome ELSE "none",
                          fresh   |-> d \in cleared]
    /\ op' = "detect"
    /\ cleared' = {}
    /\ UNCHANGED <<saving, recVars, genVars, fpVars>>

\* the mutant of ClearCache: the in-memory baseline is not reset
clear_cache_keeps_memory(d, unlink_ok) ==
    /\ detectors[d].alive
    /\ detectors' = detectors
    /\ file.kind = "absent" => unlink_ok
    /\ file' = IF file.kind # "absent" /\ unlink_ok THEN FileAbsent ELSE file
    /\ op' = "clear"
    /\ lastRun' = NoRun
    /\ cleared' = IF unlink_ok THEN cleared \cup {d} ELSE {}
    /\ UNCHANGED <<saving, recVars, genVars, fpVars>>

\* clear_cache() by detector d: unlink may raise after the in-memory baseline
\* has been emptied (the call then does not return)
ClearCache(d, unlink_ok) ==
    /\ detectors[d].alive
    /\ detectors' = [detectors EXCEPT ![d].cached_apis = {}]
    /\ file.kind = "absent" => unlink_ok
    /\ file' = IF file.kind # "absent" /\ unlink_ok THEN FileAbsent ELSE file
    /\ op' = "clear"
    /\ lastRun' = NoRun
    /\ cleared' = IF unlink_ok THEN cleared \cup {d} ELSE {}
    /\ UNCHANGED <<saving, recVars, genVars, fpVars>>

InitDetector ==
    /\ file \in {FileAbsent, NoDirectory}
    /\ detectors = [d \in Detectors |-> [alive |-> FALSE, cached_apis |-> {}]]
    /\ lastRun = NoRun
    /\ op = "init"
    /\ cleared = {}
    /\ saving = {}
    /\ RecIdle /\ GenIdle /\ FpIdle

NextDetector ==
    \/ \E d \in Detectors : Construct(d)
    \/ \E d \in Detectors, b \in Batches, o \in SaveOutcomes : Detect(d, b, o)
    \/ \E d \in Detectors, ok \in BOOLEAN : ClearCache(d, ok)

SpecDetector == InitDetector /\ [][NextDetector]_vars

(***************************************************************************)
(* Two detectors on one baseline file, with _save_cache (lines 44-51) taken *)
(* in the two steps it makes on the file: open(..., 'w') truncates it, and  *)
(* json.dump with the close of the with block writes the text at offset 0  *)
(* of the handle.  The length of a baseline text is counted in entries: the *)
(* keys of the records used here have one length and so have the hashes.    *)
(***************************************************************************)

\* the file after open(..., 'w')
Truncated == [kind |-> "corrupt", data |-> {}]

\* the file after a handle opened earlier wrote the text of cached at offset 0:
\* a longer text written meanwhile through another handle keeps its tail
written_over(f, cached) ==
    IF Cardinality(f.data) <= Cardinality(cached)
    THEN FileValid(cached)
    ELSE [kind |-> "corrupt", data |-> f.data]

\* detect_changes(requests) by detector d, up to and including the open of
\* _save_cache; without changes, or when open raises, the call returns here
DetectOpen(d, requests, open_ok) ==
    /\ detectors[d].alive
    /\ d \notin saving
    /\ LET cached == detectors[d].cached_apis
           save   == should_save(cached, requests)
           after  == IF save THEN dict_update(cached, current_signatures(requests))
                     ELSE cached
       IN  /\ ~save => open_ok
           /\ detectors' = [detectors EXCEPT ![d].cached_apis = after]
           /\ file' = IF save /\ open_ok THEN Truncated ELSE file
           /\ saving' = IF save /\ open_ok THEN saving \cup {d} ELSE saving
           /\ op' = IF save /\ open_ok THEN "open" ELSE "detect"
           /\ lastRun' = [det     |-> d,
                          batch   |-> requests,
                          new     |-> new_requests(cached, requests),
                          changed |-> changed_requests(cached, requests),
                          has     |-> has_changes(cached, requests),
                          save    |-> IF ~save THEN "none"
                                      ELSE IF open_ok THEN "opened" ELSE "open_fails",
                          fresh   |-> FALSE]
    /\ cleared' = {}
    /\ UNCHANGED <<recVars, genVars, fpVars>>

\* the rest of _save_cache by detector d: json.dump and the close of the file;
\* a write that raises leaves a partial text, and the error is logged only
DetectWrite(d, write_ok) ==
    /\ d \in saving
    /\ file' = IF write_ok THEN written_over(file, detectors[d].cached_apis)
               ELSE [kind |-> "corrupt", data |-> file.data]
    /\ saving' = saving \ {d}
    /\ op' = "write"
    /\ lastRun' = [NoRun EXCEPT !.det = d,
                                !.save = IF write_ok THEN "ok" ELSE "write_fails"]
    /\ UNCHANGED <<detectors, cleared, recVars, genVars, fpVars>>

InitConcurrent == DetIdle /\ RecIdle /\ GenIdle /\ FpIdle

NextConcurrent ==
    \/ \E d \in Detectors : d \notin saving /\ Construct(d)
    \/ \E d \in Detectors, b \in Batches, ok \in BOOLEAN : DetectOpen(d, b, ok)
    \/ \E d \in Detectors, ok \in BOOLEAN : DetectWrite(d, ok)

SpecConcurrent == InitConcurrent /\ [][NextConcurrent]_vars

\* C26: when the save of a detection run completes and no other save is under
\* way, the baseline file holds the in-memory baseline of the detector that
\* saved, and nothing else.
LastWriterWins ==
    [][ (op' = "write" /\ lastRun'.save = "ok" /\ saving' = {})
        => file' = FileValid(detectors'[lastRun'.det].cached_apis) ]_vars

\* the signatures occurring in a batch
BatchSignatures(requests) == {signature_of[requests[i]] : i \in DOMAIN requests}

\* C1: a detect_changes run that directly follows a run of the same detector on
\* the same batch, which wrote the baseline, reports no change: hasChanges is
\* false and the new and changed lists are empty.
DetectIdempotent ==
    [][ ( /\ op = "detect" /\ lastRun.save = "ok"
          /\ op' = "detect"
          /\ lastRun'.det = lastRun.det
          /\ lastRun'.batch = lastRun.batch )
        => ( /\ ~lastRun'.has
             /\ lastRun'.new = <<>>
             /\ lastRun'.changed = <<>> ) ]_vars

\* C8: a run on a non-empty batch by a detector whose baseline is empty, while the
\* baseline file is absent, classifies every record as new and none as changed,
\* reports changes, and leaves a baseline file whose keys are exactly the
\* signatures of the batch.
FirstRunWritesBatchKeys ==
    [][ ( /\ op' = "detect"
          /\ lastRun'.batch # <<>>
          /\ file.kind = "absent"
          /\ detectors[lastRun'.det].cached_apis = {} )
        => ( /\ lastRun'.new = lastRun'.batch
             /\ lastRun'.changed = <<>>
             /\ lastRun'.has
             /\ file'.kind = "valid"
             /\ FileKeys(file') = BatchSignatures(lastRun'.batch) ) ]_vars

\* C9: a detect_changes run that returns hasChanges = false writes nothing and
\* leaves the baseline file and every in-memory baseline as they were.
NoWriteWithoutChange ==
    [][ (op' = "detect" /\ ~lastRun'.has)
        => ( /\ lastRun'.save = "none"
             /\ file' = file
             /\ detectors' = detectors ) ]_vars

\* C9 witness: a run on a non-empty batch has just reported no change, by a
\* detector whose in-memory baseline differs from what the file holds
NoChangeRunWitness ==
    /\ op = "detect"
    /\ lastRun.batch # <<>>
    /\ ~lastRun.has
    /\ lastRun.save = "none"
    /\ file.kind = "valid"
    /\ detectors[lastRun.det].cached_apis # file.data

\* C10: no step other than clear_cache removes a key from the persisted
\* baseline (compared whenever the file parses after the step).
BaselineKeysMonotone ==
    [][ (op' # "clear" /\ file'.kind # "corrupt")
        => FileKeys(file) \subseteq FileKeys(file') ]_vars

\* the positions of a batch whose record has a signature the baseline lacks, and
\* those whose record has a signature the baseline maps to another fingerprint
NewPositions(cached, batch) ==
    {i \in DOMAIN batch : \A p \in cached : p[1] # signature_of[batch[i]]}

ChangedPositions(cached, batch) ==
    {i \in DOMAIN batch :
        \E p \in cached : p[1] = signature_of[batch[i]] /\ p[2] # hash_of[batch[i]]}

\* list holds exactly the records of batch at the positions P, in batch order
IsSelection(list, batch, P) ==
    /\ Len(list) = Cardinality(P)
    /\ \A k \in DOMAIN list :
          \E i \in P : Cardinality({j \in P : j < i}) = k - 1 /\ list[k] = batch[i]

\* C22: against the baseline the detector held when the run started, newRecords
\* holds, in batch order, exactly the records whose signature is absent, and
\* changedRecords exactly those whose signature is present with another
\* fingerprint; no position of the batch is in both; hasChanges is true iff one
\* of the lists is non-empty.
ClassificationRule ==
    [][ op' = "detect" =>
          LET cached == detectors[lastRun'.det].cached_apis
              batch  == lastRun'.batch
          IN  /\ IsSelection(lastRun'.new, batch, NewPositions(cached, batch))
              /\ IsSelection(lastRun'.changed, batch, ChangedPositions(cached, batch))
              /\ NewPositions(cached, batch) \cap ChangedPositions(cached, batch) = {}
              /\ lastRun'.has <=> (lastRun'.new # <<>> \/ lastRun'.changed # <<>>) ]_vars

\* C22 witness: a run on a batch of two records has classified the first as
\* changed and the second as new
ClassificationWitness ==
    /\ op = "detect"
    /\ Len(lastRun.batch) = 2
    /\ lastRun.changed = <<lastRun.batch[1]>>
    /\ lastRun.new = <<lastRun.batch[2]>>

\* C23: after a run that reports changes, the detector's baseline maps every
\* signature of the batch to the fingerprint of the last record of the batch
\* with that signature, and maps every other key as before the run.
NextBaselineContent ==
    [][ (op' = "detect" /\ lastRun'.has) =>
          LET before == detectors[lastRun'.det].cached_apis
              after  == detectors'[lastRun'.det].cached_apis
              batch  == lastRun'.batch
          IN  /\ \A i \in DOMAIN batch :
                    (\A j \in (i + 1)..Len(batch) : signature_of[batch[j]] # signature_of[batch[i]])
                        => <<signature_of[batch[i]], hash_of[batch[i]]>> \in after
              /\ \A p \in before : p[1] \notin BatchSignatures(batch) => p \in after
              /\ Keys(after) = Keys(before) \cup BatchSignatures(batch)
              /\ Cardinality(after) = Cardinality(Keys(after)) ]_vars

\* C23 witness: a run has reported changes on a batch of two records with one
\* signature and two fingerprints, by a detector that also holds a key the batch
\* does not name; the baseline holds the fingerprint of the second record
NextBaselineWitness ==
    /\ op = "detect"
    /\ lastRun.has
    /\ Len(lastRun.batch) = 2
    /\ signature_of[lastRun.batch[1]] = signature_of[lastRun.batch[2]]
    /\ hash_of[lastRun.batch[1]] # hash_of[lastRun.batch[2]]
    /\ <<signature_of[lastRun.batch[2]], hash_of[lastRun.batch[2]]>>
          \in detectors[lastRun.det].cached_apis
    /\ Keys(detectors[lastRun.det].cached_apis) # BatchSignatures(lastRun.batch)

\* C24: whenever a run reports changes, the baseline file holds the detector's
\* in-memory baseline after the run.
AtomicBaselineUpdate ==
    [][ (op' = "detect" /\ lastRun'.has)
        => file' = FileValid(detectors'[lastRun'.det].cached_apis) ]_vars

\* C25: clear_cache ends either with the in-memory baseline empty and the file
\* absent, or with the in-memory baseline and the file as they were.
ClearAllOrNothing ==
    [][ op' = "clear"
        => \/ \E d \in Detectors :
                 /\ detectors' = [detectors EXCEPT ![d].cached_apis = {}]
                 /\ file'.kind = "absent"
           \/ (detectors' = detectors /\ file' = file) ]_vars

\* C37: a construction on an unparseable baseline file gives a detector with an
\* empty baseline; a detection run of a detector with an empty baseline on a
\* non-empty batch, while the file is unparseable, reports every record as new
\* and leaves a file that holds the baseline of the run and nothing else.
UnparseableBaselineReplaced ==
    [][ /\ (op' = "construct" /\ file.kind = "corrupt")
            => \A d \in Detectors :
                  detectors'[d] # detectors[d]
                     => detectors'[d] = [alive |-> TRUE, cached_apis |-> {}]
        /\ ( /\ op' = "detect"
             /\ file.kind = "corrupt"
             /\ detectors[lastRun'.det].cached_apis = {}
             /\ lastRun'.batch # <<>> )
            => /\ lastRun'.new = lastRun'.batch
               /\ lastRun'.changed = <<>>
               /\ file' = FileValid(current_signatures(lastRun'.batch)) ]_vars

\* C32: while the directory of the baseline file does not exist, no step creates
\* it and no detector comes into being: the construction fails.
MissingDirectoryIsLoud ==
    [][ file.kind = "no_directory"
        => ( /\ file'.kind = "no_directory"
             /\ \A d \in Detectors : ~detectors'[d].alive ) ]_vars

\* C11: when clear_cache returns, the in-memory baseline is empty and the
\* baseline file does not exist; the next detection run, when it is made by the
\* clearing detector or by one constructed since, classifies every record of its
\* batch as new and none as changed.
ClearedThenAllNew ==
    [][ /\ (op' = "clear" /\ cleared' # {})
            => ( /\ file'.kind = "absent"
                 /\ \A d \in cleared' : detectors'[d].cached_apis = {} )
        /\ (op' = "detect" /\ lastRun'.det \in cleared)
            => ( /\ lastRun'.new = lastRun'.batch
                 /\ lastRun'.changed = <<>> ) ]_vars

\* C11 witness: the first detection run after a clear_cache has classified its
\* whole non-empty batch as new, although the baseline held one of its
\* signatures before the clear (another detector still holds it in memory)
ClearedThenAllNewWitness ==
    /\ op = "detect"
    /\ lastRun.fresh
    /\ lastRun.batch # <<>>
    /\ lastRun.new = lastRun.batch
    /\ \E d \in Detectors \ {lastRun.det} :
          signature_of[lastRun.batch[1]] \in Keys(detectors[d].cached_apis)

(***************************************************************************)
(* RequestInterceptor: one recording session                               *)
(***************************************************************************)
\* constructor arguments: the host allow-list and the ignored resource types
hosts                 == <<HostA, HostB>>
ignore_resource_types == {"image"}

\* a route's request, with the response the server gives to it
Event(method, url, rtype, post, status) ==
    [method |-> method, url |-> url, resource_type |-> rtype,
     headers |-> <<"accept", "cookie">>, post_data |-> post, status |-> status]

RecHosts   == {HostA, HostB, HostC}
RecPaths   == {PathUsers}
RecQueries == {QNone, QX}

Events ==
    { Event(GET,  MkUrl(HostA, PathUsers, QNone), "xhr",   BodyAbsent, 200),
      Event(GET,  MkUrl(HostA, PathUsers, QX),    "xhr",   BodyAbsent, 200),
      Event(GET,  MkUrl(HostB, PathUsers, QNone), "xhr",   BodyAbsent, 200),
      Event(POST, MkUrl(HostA, PathUsers, QNone), "fetch", BodyObject(<<"id", "title">>), 201),
      Event(GET,  MkUrl(HostC, PathUsers, QNone), "xhr",   BodyAbsent, 200),
      Event(GET,  MkUrl(HostA, PathUsers, QNone), "image", BodyAbsent, 200) }

\* the interceptor object of the session, as far as _should_intercept reads it
interceptor == [hosts |-> hosts, ignore_resource_types |-> ignore_resource_types]

\* the mutant of _should_intercept: the resource type is not looked at
should_intercept_any_type(self, request) ==
    \E i \in DOMAIN self.hosts : contains(request.url, self.hosts[i])

_should_intercept(self, request) ==
    IF request.resource_type \in self.ignore_resource_types THEN FALSE
    ELSE \E i \in DOMAIN self.hosts : contains(request.url, self.hosts[i])

\* the mutant of _generate_signature: the query string stays in the dedupe key
signature_with_query(request) == request.method \o <<":">> \o request.url

_generate_signature(request) ==
    request.method \o <<":">> \o split_first(request.url, "?")

\* _should_intercept applied to one event by an interceptor constructed with any
\* allow-list and any ignore set
HostIO == <<"i","o">>

SiHostLists  == { <<>>, <<HostA>>, <<HostB, HostA>>, <<HostIO>>, <<QNone>> }
SiIgnoreSets == { {}, {"image"}, {"image", "xhr"} }
SiEvents     == Events \cup { Event(GET, MkUrl(HostC, PathUsers, <<"r","=">> \o HostA),
                                    "xhr", BodyAbsent, 200) }

InitShouldIntercept ==
    /\ arg \in [self    : [hosts : SiHostLists, ignore_resource_types : SiIgnoreSets],
                 request : SiEvents]
    /\ ret = <<>>
    /\ fp_in = <<>> /\ fp_out = <<>>
    /\ DetIdle /\ RecIdle /\ GenIdle

ApplyShouldIntercept ==
    /\ ret = <<>>
    /\ ret' = <<_should_intercept(arg.self, arg.request)>>
    /\ UNCHANGED <<arg, fp_in, fp_out, detVars, recVars, genVars>>

NextShouldIntercept == ApplyShouldIntercept

SpecShouldIntercept == InitShouldIntercept /\ [][NextShouldIntercept]_vars

\* sub occurs in s as a run of consecutive characters
OccursIn(sub, s) ==
    \E i \in 1..(Len(s) + 1) :
        \A k \in 1..Len(sub) : i + k - 1 <= Len(s) /\ s[i + k - 1] = sub[k]

\* C14: _should_intercept returns false when the resource type of the event is in
\* the ignore set, and otherwise true exactly when some allow-listed host occurs
\* in the URL as a substring (so false for an empty allow-list); it changes no
\* state of the recorder.
ShouldInterceptRule ==
    [][ ret' # <<>> =>
          /\ ret'[1] = ( /\ arg.request.resource_type \notin arg.self.ignore_resource_types
                         /\ \E j \in DOMAIN arg.self.hosts :
                               OccursIn(arg.self.hosts[j], arg.request.url) )
          /\ recVars' = recVars ]_vars

\* C14 witness: an event whose URL holds an allow-listed host only in its query
\* string, and whose resource type is not ignored, has been found to be intercepted
ShouldInterceptWitness ==
    /\ ret = <<TRUE>>
    /\ arg.self.hosts = <<HostB, HostA>>
    /\ arg.self.ignore_resource_types = {"image"}
    /\ arg.request.url = MkUrl(HostC, PathUsers, <<"r","=">> \o HostA)

should_intercept_of == [e \in Events |-> _should_intercept(interceptor, e)]
dedupe_key_of       == [e \in Events |-> _generate_signature(e)]

\* what the environment does to one handler run: reading post_data, route.fetch(),
\* response.body(), route.fulfill() and the route.continue_() of the except
\* branch each succeed or raise
Outcome(post_ok, fetch_ok, body_ok, fulfill_ok, continue_ok) ==
    [post_ok |-> post_ok, fetch_ok |-> fetch_ok, body_ok |-> body_ok,
     fulfill_ok |-> fulfill_ok, continue_ok |-> continue_ok]

Outcomes ==
    { Outcome(TRUE,  TRUE,  TRUE,  TRUE,  TRUE),
      Outcome(TRUE,  TRUE,  TRUE,  FALSE, TRUE),
      Outcome(TRUE,  TRUE,  TRUE,  FALSE, FALSE),
      Outcome(TRUE,  TRUE,  FALSE, TRUE,  TRUE),
      Outcome(TRUE,  FALSE, TRUE,  TRUE,  TRUE),
      Outcome(TRUE,  FALSE, TRUE,  TRUE,  FALSE),
      Outcome(FALSE, TRUE,  TRUE,  TRUE,  TRUE) }

\* await route.continue_() (lines 87, 95, 152): none of the three is guarded
continue_(continue_ok) == IF continue_ok THEN <<"continue">> ELSE <<"continue_raised">>

\* the steps of a capturing handler run, lines 108-152
capture_steps(out) ==
    (IF out.post_ok THEN <<>> ELSE <<"post_data_raised">>)
    \o (IF ~out.fetch_ok
        THEN <<"fetch_raised">> \o continue_(out.continue_ok)
        ELSE (IF out.body_ok THEN <<>> ELSE <<"body_raised">>)
             \o (IF out.fulfill_ok
                 THEN <<"fulfill">>
                 ELSE <<"fulfill_raised">> \o continue_(out.continue_ok)))

\* request_data as lines 100-136 build it (timestamp: the session's event count)
request_data(request, out, now) ==
    Req(now, request.method, request.url, request.headers, request.resource_type,
        IF out.post_ok THEN request.post_data ELSE BodyAbsent,
        Resp(request.status, IF out.body_ok THEN "object" ELSE "absent"))

MaxEvents == 3

\* _handle_route, not intercepted: the route is continued (lines 86-88)
HandleNotIntercepted(e, continue_ok) ==
    /\ ~should_intercept_of[e]
    /\ lastRoute' = continue_(continue_ok)
    /\ UNCHANGED <<deduplicate, intercepted_requests, request_signatures, handled>>
    /\ UNCHANGED <<detVars, genVars, fpVars, flushVars, coroutines>>

\* _handle_route, duplicate: the route is continued, nothing is recorded (91-96)
HandleDuplicate(e, continue_ok) ==
    /\ Len(handled) < MaxEvents
    /\ should_intercept_of[e]
    /\ deduplicate /\ dedupe_key_of[e] \in request_signatures
    /\ handled' = Append(handled, e)
    /\ lastRoute' = continue_(continue_ok)
    /\ UNCHANGED <<deduplicate, intercepted_requests, request_signatures>>
    /\ UNCHANGED <<detVars, genVars, fpVars, flushVars, coroutines>>

\* _handle_route, capture (lines 97-152): the key is added to the dedupe set, then
\* the response is fetched; the record is appended only when fetch returned
HandleCapture(e, out) ==
    /\ Len(handled) < MaxEvents
    /\ should_intercept_of[e]
    /\ ~(deduplicate /\ dedupe_key_of[e] \in request_signatures)
    /\ handled' = Append(handled, e)
    /\ request_signatures' = IF deduplicate
                             THEN request_signatures \cup {dedupe_key_of[e]}
                             ELSE request_signatures
    /\ intercepted_requests' =
          IF out.fetch_ok
          THEN Append(intercepted_requests, request_data(e, out, Len(handled) + 1))
          ELSE intercepted_requests
    /\ lastRoute' = capture_steps(out)
    /\ UNCHANGED deduplicate
    /\ UNCHANGED <<detVars, genVars, fpVars, flushVars, coroutines>>

\* clear()
Clear ==
    /\ intercepted_requests' = <<>>
    /\ request_signatures' = {}
    /\ handled' = <<>>
    /\ lastRoute' = <<>>
    /\ UNCHANGED deduplicate
    /\ UNCHANGED <<detVars, genVars, fpVars, flushVars, coroutines>>

InitRecorder ==
    /\ deduplicate \in BOOLEAN
    /\ intercepted_requests = <<>>
    /\ request_signatures = {}
    /\ handled = <<>>
    /\ lastRoute = <<>>
    /\ coroutines = [h \in Handlers |-> NoCoroutine]
    /\ FlushIdle
    /\ DetIdle /\ GenIdle /\ FpIdle

NextRecorder ==
    \/ \E e \in Events, ok \in BOOLEAN : HandleNotIntercepted(e, ok)
    \/ \E e \in Events, ok \in BOOLEAN : HandleDuplicate(e, ok)
    \/ \E e \in Events, out \in Outcomes : HandleCapture(e, out)
    \/ Clear

SpecRecorder == InitRecorder /\ [][NextRecorder]_vars

\* two requests name the same endpoint: same method, same URL path
SameEndpoint(r1, r2) ==
    /\ r1.method = r2.method
    /\ \E h1 \in RecHosts, h2 \in RecHosts, p \in RecPaths,
          q1 \in RecQueries, q2 \in RecQueries :
          r1.url = MkUrl(h1, p, q1) /\ r2.url = MkUrl(h2, p, q2)

\* two requests have the same method and the same URL up to the query string
SameUrlWithoutQuery(r1, r2) ==
    /\ r1.method = r2.method
    /\ \E h \in RecHosts, p \in RecPaths, q1 \in RecQueries, q2 \in RecQueries :
          r1.url = MkUrl(h, p, q1) /\ r2.url = MkUrl(h, p, q2)

\* C2: once the session has handled two intercepted events with the same method
\* and path but different query strings, it holds one record with dedupe enabled
\* and two with dedupe disabled.
DedupeRecordsOneOrTwo ==
    ( /\ Len(handled) = 2
      /\ SameUrlWithoutQuery(handled[1], handled[2])
      /\ handled[1].url # handled[2].url )
    => Len(intercepted_requests) = IF deduplicate THEN 1 ELSE 2

Resolutions == {i \in DOMAIN lastRoute : lastRoute[i] \in {"continue", "fulfill"}}

\* C12: every handler run resolves the route exactly once, by continue_ or by
\* fulfill, and makes no further resolution call after the one that resolved it.
RouteResolvedExactlyOnce ==
    lastRoute # <<>> =>
        /\ Cardinality(Resolutions) = 1
        /\ Len(lastRoute) \in Resolutions

\* _handle_route raised: its last step is a call that raised outside every try
handler_raised == lastRoute # <<>> /\ lastRoute[Len(lastRoute)] = "continue_raised"

\* a step of the capture raised: reading the request body, fetching the response,
\* reading the response body or forwarding the response
CaptureStepFailed ==
    \E i \in DOMAIN lastRoute :
        lastRoute[i] \in {"post_data_raised", "fetch_raised", "body_raised", "fulfill_raised"}

\* C13: a handler run in which a step of the capture failed does not raise.
CaptureErrorsSwallowed == CaptureStepFailed => ~handler_raised

\* C36: with dedupe enabled, every key of the dedupe set is the key of a record
\* of the session sequence.
DedupeSetTracksRecords ==
    deduplicate =>
        \A k \in request_signatures :
            \E i \in DOMAIN intercepted_requests :
                _generate_signature(intercepted_requests[i]) = k

\* C27: a handler run on an event that passes _should_intercept and is not a
\* duplicate appends one record of the event to the session sequence, also when
\* the response could not be fetched (the record has no response) or its body
\* could not be read (the record has a response without body).
FailedReadsRecorded ==
    [][ ( /\ Len(handled') = Len(handled) + 1
          /\ ~(deduplicate /\ dedupe_key_of[handled'[Len(handled')]] \in request_signatures) )
        => /\ Len(intercepted_requests') = Len(intercepted_requests) + 1
           /\ LET e == handled'[Len(handled')]
                  r == intercepted_requests'[Len(intercepted_requests')]
              IN  /\ r.method = e.method /\ r.url = e.url
                  /\ (\E i \in DOMAIN lastRoute' : lastRoute'[i] = "fetch_raised")
                         => ~r.response.present
                  /\ (\E i \in DOMAIN lastRoute' : lastRoute'[i] = "body_raised")
                         => (r.response.present /\ r.response.body_kind = "absent") ]_vars

(***************************************************************************)
(* RequestInterceptor: two handler runs as coroutines of one event loop    *)
(* (setup, lines 154-162).  A coroutine runs alone from one await to the   *)
(* next; at an await another coroutine may run.                            *)
(***************************************************************************)

\* the mutant of HandlerStart: the key is never added to the dedupe set
handler_start_without_add(h, e) ==
    /\ coroutines[h].pc = "idle"
    /\ LET duplicate == deduplicate /\ dedupe_key_of[e] \in request_signatures
           capture   == should_intercept_of[e] /\ ~duplicate
       IN  coroutines' = [coroutines EXCEPT ![h] =
                             [pc |-> IF capture THEN "fetch" ELSE "continue",
                              event |-> e, appended |-> FALSE]]
    /\ UNCHANGED <<deduplicate, intercepted_requests, request_signatures, handled,
                   lastRoute, flushVars>>
    /\ UNCHANGED <<detVars, genVars, fpVars>>

\* lines 90-97 up to the first await: an event that is not intercepted or is a
\* duplicate goes to await route.continue_(); any other has its key added to
\* the dedupe set and goes to await route.fetch()
HandlerStart(h, e) ==
    /\ coroutines[h].pc = "idle"
    /\ LET duplicate == deduplicate /\ dedupe_key_of[e] \in request_signatures
           capture   == should_intercept_of[e] /\ ~duplicate
       IN  /\ request_signatures' = IF capture /\ deduplicate
                                    THEN request_signatures \cup {dedupe_key_of[e]}
                                    ELSE request_signatures
           /\ coroutines' = [coroutines EXCEPT ![h] =
                                [pc |-> IF capture THEN "fetch" ELSE "continue",
                                 event |-> e, appended |-> FALSE]]
    /\ UNCHANGED <<deduplicate, intercepted_requests, handled, lastRoute, flushVars>>
    /\ UNCHANGED <<detVars, genVars, fpVars>>

\* await route.fetch() returns or raises (line 121, except at line 150)
HandlerFetched(h, fetch_ok) ==
    /\ coroutines[h].pc = "fetch"
    /\ coroutines' = [coroutines EXCEPT ![h].pc = IF fetch_ok THEN "body" ELSE "continue"]
    /\ UNCHANGED <<deduplicate, intercepted_requests, request_signatures, handled,
                   lastRoute, flushVars>>
    /\ UNCHANGED <<detVars, genVars, fpVars>>

\* await response.body() returns or raises (lines 132-138); the record is
\* appended (line 141) and the coroutine goes to await route.fulfill()
HandlerAppend(h, body_ok) ==
    /\ coroutines[h].pc = "body"
    /\ intercepted_requests' =
          Append(intercepted_requests,
                 request_data(coroutines[h].event,
                              Outcome(TRUE, TRUE, body_ok, TRUE, TRUE),
                              Len(intercepted_requests) + 1))
    /\ coroutines' = [coroutines EXCEPT ![h].pc = "fulfill", ![h].appended = TRUE]
    /\ UNCHANGED <<deduplicate, request_signatures, handled, lastRoute, flushVars>>
    /\ UNCHANGED <<detVars, genVars, fpVars>>

\* await route.fulfill() returns or raises (lines 145-152)
HandlerFulfilled(h, fulfill_ok) ==
    /\ coroutines[h].pc = "fulfill"
    /\ coroutines' = [coroutines EXCEPT ![h].pc = IF fulfill_ok THEN "done" ELSE "continue"]
    /\ UNCHANGED <<deduplicate, intercepted_requests, request_signatures, handled,
                   lastRoute, flushVars>>
    /\ UNCHANGED <<detVars, genVars, fpVars>>

\* await route.continue_() is over (lines 87, 95, 152)
HandlerContinued(h) ==
    /\ coroutines[h].pc = "continue"
    /\ coroutines' = [coroutines EXCEPT ![h].pc = "done"]
    /\ UNCHANGED <<deduplicate, intercepted_requests, request_signatures, handled,
                   lastRoute, flushVars>>
    /\ UNCHANGED <<detVars, genVars, fpVars>>

InitInterleaved ==
    /\ deduplicate \in BOOLEAN
    /\ intercepted_requests = <<>>
    /\ request_signatures = {}
    /\ handled = <<>>
    /\ lastRoute = <<>>
    /\ coroutines = [h \in Handlers |-> NoCoroutine]
    /\ FlushIdle
    /\ DetIdle /\ GenIdle /\ FpIdle

NextInterleaved ==
    \/ \E h \in Handlers, e \in Events : HandlerStart(h, e)
    \/ \E h \in Handlers, ok \in BOOLEAN : HandlerFetched(h, ok)
    \/ \E h \in Handlers, ok \in BOOLEAN : HandlerAppend(h, ok)
    \/ \E h \in Handlers, ok \in BOOLEAN : HandlerFulfilled(h, ok)
    \/ \E h \in Handlers : HandlerContinued(h)

SpecInterleaved == InitInterleaved /\ [][NextInterleaved]_vars

\* C35: with dedupe enabled, of two handler runs on events with the same dedupe
\* key at most one appends a record, however the coroutines interleave.
DedupeRaceFree ==
    deduplicate =>
        \A h1 \in Handlers, h2 \in Handlers :
            ( /\ h1 # h2
              /\ coroutines[h1].pc # "idle"
              /\ coroutines[h2].pc # "idle"
              /\ _generate_signature(coroutines[h1].event)
                    = _generate_signature(coroutines[h2].event) )
            => ~(coroutines[h1].appended /\ coroutines[h2].appended)

\* C35 witness: with dedupe enabled, one handler run is suspended in the await of
\* route.fetch() while the run on an event with the same key has been skipped as
\* a duplicate and is over, and nothing is recorded yet
DedupeRaceFreeWitness ==
    /\ deduplicate
    /\ coroutines["h1"].pc = "fetch"
    /\ coroutines["h2"].pc = "done"
    /\ ~coroutines["h2"].appended
    /\ should_intercept_of[coroutines["h2"].event]
    /\ coroutines["h1"].event.url # coroutines["h2"].event.url
    /\ _generate_signature(coroutines["h1"].event) = _generate_signature(coroutines["h2"].event)
    /\ intercepted_requests = <<>>

(***************************************************************************)
(* UITestBase: test sessions that record and flush into one directory      *)
(***************************************************************************)

MaxFlush == 2

\* the records a session may capture, by number
FlushRecords == {1, 2}

\* save_json(data, filepath): mkdir, open(..., 'w') and json.dump; open may
\* raise (the directory is left as it was), json.dump may be cut short
save_json(dir, data, filepath, outcome) ==
    CASE outcome = "ok"          -> [dir EXCEPT ![filepath] = data]
      [] outcome = "open_fails"  -> dir
      [] outcome = "write_fails" ->
            [dir EXCEPT ![filepath] = [data EXCEPT !.kind = "partial", !.requests = <<>>]]

\* RequestInterceptor.save_requests() of session s at time t
save_requests(dir, s, requests, t, outcome) ==
    save_json(dir,
              [kind |-> "batch", total |-> Len(requests), requests |-> requests, by |-> s],
              get_timestamp(t), outcome)

\* setup_method: a new context and page; the interceptor when the
\* configuration enables interception
SetupMethod(s, enabled) ==
    /\ sessions[s].phase = "none"
    /\ sessions' = [sessions EXCEPT ![s] =
                       [phase |-> "running", interceptor |-> enabled,
                        intercepted_requests |-> <<>>,
                        page |-> "open", context |-> "open"]]
    /\ lastFlush' = NoFlush
    /\ UNCHANGED <<batch_dir, clock>>
    /\ UNCHANGED <<deduplicate, intercepted_requests, request_signatures, handled, lastRoute,
                   coroutines>>
    /\ UNCHANGED <<detVars, genVars, fpVars>>

\* a handler run of the session's interceptor that appends a record (line 141)
SessionCapture(s, r) ==
    /\ sessions[s].phase = "running"
    /\ sessions[s].interceptor
    /\ Len(sessions[s].intercepted_requests) < MaxFlush
    /\ sessions' = [sessions EXCEPT ![s].intercepted_requests = Append(@, r)]
    /\ lastFlush' = NoFlush
    /\ UNCHANGED <<batch_dir, clock>>
    /\ UNCHANGED <<deduplicate, intercepted_requests, request_signatures, handled, lastRoute,
                   coroutines>>
    /\ UNCHANGED <<detVars, genVars, fpVars>>

\* the mutant of TeardownMethod: save_requests is called without try/except, so
\* a failed save leaves teardown_method before the page and context are closed
teardown_without_except(s, outcome) ==
    /\ sessions[s].phase = "running"
    /\ LET self == sessions[s]
           save == self.interceptor /\ self.intercepted_requests # <<>>
       IN  /\ ~save => outcome = "ok"
           /\ batch_dir' = IF save
                           THEN save_requests(batch_dir, s, self.intercepted_requests, clock, outcome)
                           ELSE batch_dir
           /\ sessions' = IF outcome = "ok"
                          THEN [sessions EXCEPT ![s].phase = "done", ![s].page = "closed",
                                                ![s].context = "closed"]
                          ELSE [sessions EXCEPT ![s].phase = "done"]
           /\ lastFlush' = [session |-> s, saved |-> save,
                            outcome |-> IF save THEN outcome ELSE "none",
                            filename |-> get_timestamp(clock)]
    /\ UNCHANGED clock
    /\ UNCHANGED <<deduplicate, intercepted_requests, request_signatures, handled, lastRoute,
                   coroutines>>
    /\ UNCHANGED <<detVars, genVars, fpVars>>

\* teardown_method of session s (lines 104-122): a non-empty sequence is saved,
\* an error of the save is logged only; then the page and the context are closed
TeardownMethod(s, outcome) ==
    /\ sessions[s].phase = "running"
    /\ LET self == sessions[s]
           save == self.interceptor /\ self.intercepted_requests # <<>>
       IN  /\ ~save => outcome = "ok"
           /\ batch_dir' = IF save
                           THEN save_requests(batch_dir, s, self.intercepted_requests, clock, outcome)
                           ELSE batch_dir
           /\ sessions' = [sessions EXCEPT ![s].phase = "done", ![s].page = "closed",
                                           ![s].context = "closed"]
           /\ lastFlush' = [session |-> s, saved |-> save,
                            outcome |-> IF save THEN outcome ELSE "none",
                            filename |-> get_timestamp(clock)]
    /\ UNCHANGED clock
    /\ UNCHANGED <<deduplicate, intercepted_requests, request_signatures, handled, lastRoute,
                   coroutines>>
    /\ UNCHANGED <<detVars, genVars, fpVars>>

\* the clock advances
Tick ==
    /\ clock < MaxClock
    /\ clock' = clock + 1
    /\ lastFlush' = NoFlush
    /\ UNCHANGED <<sessions, batch_dir>>
    /\ UNCHANGED <<deduplicate, intercepted_requests, request_signatures, handled, lastRoute,
                   coroutines>>
    /\ UNCHANGED <<detVars, genVars, fpVars>>

InitFlush == DetIdle /\ RecIdle /\ GenIdle /\ FpIdle

NextFlush ==
    \/ \E s \in Sessions, enabled \in BOOLEAN : SetupMethod(s, enabled)
    \/ \E s \in Sessions, r \in FlushRecords : SessionCapture(s, r)
    \/ \E s \in Sessions, o \in SaveOutcomes : TeardownMethod(s, o)
    \/ Tick

SpecFlush == InitFlush /\ [][NextFlush]_vars

\* C28: a teardown_method run on an empty session sequence leaves the directory
\* as it was; on a non-empty one whose save succeeds it writes the file named by
\* the timestamp, with the sequence in capture order as requests and its length
\* as total, and no other file; the page and the context are closed after the
\* run whether the save succeeded or not.
FlushOnTeardown ==
    [][ lastFlush'.session # "none" =>
          LET s    == lastFlush'.session
              reqs == sessions[s].intercepted_requests
          IN  /\ reqs = <<>> => batch_dir' = batch_dir
              /\ (reqs # <<>> /\ lastFlush'.outcome = "ok") =>
                    /\ batch_dir'[lastFlush'.filename].kind = "batch"
                    /\ batch_dir'[lastFlush'.filename].requests = reqs
                    /\ batch_dir'[lastFlush'.filename].total = Len(reqs)
                    /\ \A n \in Timestamps \ {lastFlush'.filename} :
                          batch_dir'[n] = batch_dir[n]
              /\ reqs # <<>> => lastFlush'.saved
              /\ sessions'[s].page = "closed"
              /\ sessions'[s].context = "closed" ]_vars

\* C28 witness: a teardown whose save failed has closed the page and the context
\* of a session holding two records, and an earlier teardown of the other
\* session has written its two records, in capture order, with total 2
FlushOnTeardownWitness ==
    /\ lastFlush.session # "none"
    /\ lastFlush.outcome = "open_fails"
    /\ Len(sessions[lastFlush.session].intercepted_requests) = 2
    /\ sessions[lastFlush.session].page = "closed"
    /\ sessions[lastFlush.session].context = "closed"
    /\ \E n \in Timestamps :
          /\ batch_dir[n].kind = "batch"
          /\ batch_dir[n].by # lastFlush.session
          /\ batch_dir[n].requests = <<1, 2>>
          /\ batch_dir[n].total = 2

\* C29: the flush of one session leaves every batch file written by another
\* session as it was, also when both flushes happen within the same second.
SessionsIndependent ==
    [][ (lastFlush'.session # "none" /\ lastFlush'.saved) =>
          \A n \in Timestamps :
              (batch_dir[n].kind # "absent" /\ batch_dir[n].by # lastFlush'.session)
                 => batch_dir'[n] = batch_dir[n] ]_vars

(***************************************************************************)
(* APITestGenerator: function names of one generation pass                 *)
(***************************************************************************)
\* line 41: every character that is not alphanumeric or '_' becomes '_'
replace_special(name) ==
    [i \in DOMAIN name |-> IF isalnum(name[i]) \/ name[i] = "_" THEN name[i] ELSE "_"]

\* str.replace('__', '_'): one left-to-right pass over non-overlapping matches
RECURSIVE replace_double_underscore(_)
replace_double_underscore(s) ==
    IF Len(s) < 2 THEN s
    ELSE IF s[1] = "_" /\ s[2] = "_"
         THEN <<"_">> \o replace_double_underscore(SubSeq(s, 3, Len(s)))
         ELSE <<s[1]>> \o replace_double_underscore(Tail(s))

\* lines 43-44: while '__' in sanitized
RECURSIVE collapse_underscores(_)
collapse_underscores(s) ==
    IF contains(s, <<"_", "_">>) THEN collapse_underscores(replace_double_underscore(s))
    ELSE s

\* str.strip('_')
RECURSIVE lstrip_underscore(_)
lstrip_underscore(s) ==
    IF s # <<>> /\ s[1] = "_" THEN lstrip_underscore(Tail(s)) ELSE s

RECURSIVE rstrip_underscore(_)
rstrip_underscore(s) ==
    IF s # <<>> /\ s[Len(s)] = "_" THEN rstrip_underscore(SubSeq(s, 1, Len(s) - 1)) ELSE s

strip_underscore(s) == rstrip_underscore(lstrip_underscore(s))

TestPrefix == <<"t","e","s","t","_">>

_sanitize_name(name) ==
    LET sanitized == strip_underscore(collapse_underscores(replace_special(name)))
    IN  lower(IF sanitized # <<>> /\ ~isalpha(sanitized[1])
              THEN TestPrefix \o sanitized
              ELSE sanitized)

_extract_test_name(request) ==
    LET method  == lower(request.method)
        segment == split_last(split_first(request.url, "?"), "/")
        path    == IF segment = <<>> THEN <<"r","o","o","t">> ELSE segment
    IN  TestPrefix \o method \o <<"_">> \o _sanitize_name(path)

\* _sanitize_name applied to one name: every string of at most MaxNameLen
\* characters over a letter, a capital, a digit, the underscore and a hyphen
MaxNameLen == 4

NameChars == {"a", "B", "1", "_", "-"}

Names == UNION { [1..n -> NameChars] : n \in 0..MaxNameLen }

InitSanitize ==
    /\ arg \in Names
    /\ ret = <<>>
    /\ fp_in = <<>> /\ fp_out = <<>>
    /\ DetIdle /\ RecIdle /\ GenIdle

ApplySanitize ==
    /\ ret = <<>>
    /\ ret' = <<_sanitize_name(arg)>>
    /\ UNCHANGED <<arg, fp_in, fp_out, detVars, recVars, genVars>>

NextSanitize == ApplySanitize

SpecSanitize == InitSanitize /\ [][NextSanitize]_vars

\* C15: _sanitize_name returns a non-empty string for every input, and the
\* prefix token for the empty input.
SanitizeNeverEmpty ==
    ret # <<>> =>
        /\ ret[1] # <<>>
        /\ arg = <<>> => ret[1] = TestPrefix

\* C16: the result of _sanitize_name is lower-case, holds only alphanumerics and
\* underscores, has no two consecutive underscores, neither starts nor ends with
\* an underscore, and starts with a letter.
SanitizeShape ==
    ret # <<>> =>
        LET r == ret[1]
        IN  /\ \A i \in DOMAIN r :
                  r[i] \in Range(LowerChars) \cup Range(DigitChars) \cup {"_"}
            /\ \A i \in 1..(Len(r) - 1) : ~(r[i] = "_" /\ r[i + 1] = "_")
            /\ r # <<>> => (r[1] # "_" /\ r[Len(r)] # "_")
            /\ r # <<>> /\ r[1] \in Range(LowerChars)

\* _extract_test_name applied to one record: URLs without a path, with the path
\* '/', with a trailing slash, with several segments, with a slash in the query
PathNone       == <<>>
PathRoot       == <<"/">>
PathUsersSlash == <<"/","u","s","e","r","s","/">>
PathUsersOne   == <<"/","u","s","e","r","s","/","1">>
PathApiUsers   == <<"/","a","p","i","/","u","s","e","r","s">>
PathHyphen     == <<"/","a","-","b">>
QSlash         == <<"p","=","a","/","b">>

DnPaths   == {PathNone, PathRoot, PathUsers, PathUsersSlash, PathUsersOne,
              PathApiUsers, PathHyphen}
DnQueries == {QNone, QX, QSlash}
DnHosts   == {HostA, HostB}

DnRecords ==
    { Req(1, m, MkUrl(h, p, q), <<"accept", "cookie">>, "xhr", BodyAbsent, Resp(200, "object")) :
        m \in {GET, POST}, h \in DnHosts, p \in DnPaths, q \in DnQueries }

InitDeriveName ==
    /\ arg \in DnRecords
    /\ ret = <<>>
    /\ fp_in = <<>> /\ fp_out = <<>>
    /\ DetIdle /\ RecIdle /\ GenIdle

ApplyDeriveName ==
    /\ ret = <<>>
    /\ ret' = <<_extract_test_name(arg)>>
    /\ UNCHANGED <<arg, fp_in, fp_out, detVars, recVars, genVars>>

NextDeriveName == ApplyDeriveName

SpecDeriveName == InitDeriveName /\ [][NextDeriveName]_vars

\* the last non-empty segment of a URL path, 'root' when it has none
LastSegmentOrRoot(path) ==
    LET filled == {i \in DOMAIN path : path[i] # "/"}
    IN  IF filled = {} THEN <<"r","o","o","t">>
        ELSE LET e == CHOOSE i \in filled : \A j \in filled : j <= i
                 slashes == {j \in 1..e : path[j] = "/"}
                 b == IF slashes = {} THEN 0
                      ELSE CHOOSE j \in slashes : \A k \in slashes : k <= j
             IN  SubSeq(path, b + 1, e)

\* C17: _extract_test_name returns 'test_', the lower-cased method, '_' and the
\* sanitized last non-empty segment of the URL path (scheme, host and query string
\* excluded), with 'root' for the path '/' and for a URL without a path.
DeriveTestNameRule ==
    ret # <<>> =>
        \A h \in DnHosts, p \in DnPaths, q \in DnQueries :
            arg.url = MkUrl(h, p, q) =>
                ret[1] = TestPrefix \o lower(arg.method) \o <<"_">>
                            \o _sanitize_name(LastSegmentOrRoot(p))

\* the mutant of test_function_name: the suffix is the one-based occurrence index
test_function_name_one_based(base_name, index) ==
    IF index > 0 THEN base_name \o <<"_">> \o str(index + 1) ELSE base_name

\* _generate_test_function, lines 87-89: the name under which the function is emitted
test_function_name(base_name, index) ==
    IF index > 0 THEN base_name \o <<"_">> \o str(index) ELSE base_name

\* the records a generation pass may be given, by number
GenRecord ==
    << Req(1, GET,  MkUrl(HostA, PathUsers,  QNone), <<"accept", "cookie">>, "xhr",
           BodyAbsent, Resp(200, "object")),
       Req(2, GET,  MkUrl(HostB, PathUsers,  QX),    <<"accept", "cookie">>, "xhr",
           BodyAbsent, Resp(200, "object")),
       Req(3, GET,  MkUrl(HostA, PathUsers1, QNone), <<"accept", "cookie">>, "xhr",
           BodyAbsent, Resp(200, "object")),
       Req(4, POST, MkUrl(HostA, PathUsers,  QNone), <<"accept", "cookie">>, "fetch",
           BodyObject(<<"id", "title">>), Resp(201, "object")),
       Req(5, GET,  MkUrl(HostA, PathPosts,  QNone), <<"accept", "cookie">>, "xhr",
           BodyAbsent, Resp(200, "text")) >>

GenRecords == DOMAIN GenRecord

base_name_of == [r \in GenRecords |-> _extract_test_name(GenRecord[r])]

\* test_name_counts.get(base_name, 0)
count_get(counts, name) == IF name \in Keys(counts) THEN Lookup(counts, name) ELSE 0

\* the loop of _generate_test_file, lines 212-218: the names emitted for the rest
\* of the batch, given test_name_counts so far
RECURSIVE generate_names(_, _)
generate_names(requests, test_name_counts) ==
    IF requests = <<>> THEN <<>>
    ELSE LET base_name == base_name_of[Head(requests)]
             count     == count_get(test_name_counts, base_name)
         IN  <<test_function_name(base_name, count)>>
               \o generate_names(Tail(requests),
                                 dict_update(test_name_counts, {<<base_name, count + 1>>}))

\* the ceiling of the response-time assertion (line 143)
max_time == 3000

Assertion(call, value) == [call |-> call, value |-> value]

\* the mutant of assertions: the not-null assertion is emitted for every response
assertions_always_not_none(request) ==
    (IF request.response.present
     THEN <<Assertion("assert_status_code", request.response.status)>> ELSE <<>>)
    \o <<Assertion("assert_response_time", max_time)>>
    \o (IF request.response.present
        THEN <<Assertion("assert_json_not_none", 0)>> ELSE <<>>)

\* _generate_test_function, lines 132-147: the assertion lines of one function
assertions(request) ==
    (IF request.response.present
     THEN <<Assertion("assert_status_code", request.response.status)>> ELSE <<>>)
    \o <<Assertion("assert_response_time", max_time)>>
    \o (IF request.response.present /\ request.response.body_kind = "object"
        THEN <<Assertion("assert_json_not_none", 0)>> ELSE <<>>)

\* the assertion lines applied to one record: no response, or a status with a
\* body that is an object, an array, text, or could not be read
AsResps == {RespAbsent, Resp(200, "object"), Resp(201, "object"), Resp(200, "array"),
            Resp(404, "text"), Resp(500, "text"), Resp(200, "absent")}

AsRecords ==
    { Req(1, m, MkUrl(h, p, QNone), <<"accept", "cookie">>, "xhr", b, rs) :
        m \in {GET, POST}, h \in {HostA, HostB}, p \in {PathUsers, PathPosts},
        b \in {BodyAbsent, BodyObject(<<"id", "title">>)}, rs \in AsResps }

InitAssertions ==
    /\ arg \in AsRecords
    /\ ret = <<>>
    /\ fp_in = <<>> /\ fp_out = <<>>
    /\ DetIdle /\ RecIdle /\ GenIdle

ApplyAssertions ==
    /\ ret = <<>>
    /\ ret' = <<assertions(arg)>>
    /\ UNCHANGED <<arg, fp_in, fp_out, detVars, recVars, genVars>>

NextAssertions == ApplyAssertions

SpecAssertions == InitAssertions /\ [][NextAssertions]_vars

\* the calls among the assertion lines emitted for the record
AssertionCalls == {ret[1][k].call : k \in DOMAIN ret[1]}

\* C18: the function of a record holds the status-code assertion, with the
\* recorded status, exactly when the record's response carries a status; it
\* always holds the response-time assertion with the ceiling 3000; it holds the
\* not-null assertion exactly when the recorded response body is a JSON object.
EmittedAssertions ==
    ret # <<>> =>
        /\ "assert_status_code" \in AssertionCalls <=> arg.response.present
        /\ \A k \in DOMAIN ret[1] :
              ret[1][k].call = "assert_status_code"
                  => ret[1][k].value = arg.response.status
        /\ \E k \in DOMAIN ret[1] : ret[1][k] = Assertion("assert_response_time", 3000)
        /\ "assert_json_not_none" \in AssertionCalls
              <=> (arg.response.present /\ arg.response.body_kind = "object")

\* C18 witness: for a record whose response has status 404 and a text body, the
\* status-code assertion with 404 and the response-time assertion have been
\* emitted, and no not-null assertion
EmittedAssertionsWitness ==
    /\ ret # <<>>
    /\ arg.response = Resp(404, "text")
    /\ ret[1] = << Assertion("assert_status_code", 404),
                   Assertion("assert_response_time", 3000) >>

\* _generate_test_function(request_data, index): the function emitted for record
\* r; its docstring and its send_request call carry the method and the URL
_generate_test_function(r, index) ==
    [name    |-> test_function_name(base_name_of[r], index),
     method  |-> GenRecord[r].method,
     url     |-> GenRecord[r].url,
     asserts |-> assertions(GenRecord[r])]

\* the loop of _generate_test_file, lines 212-218: test_functions for the rest of
\* the batch, given test_name_counts so far
RECURSIVE generate_functions(_, _)
generate_functions(requests, test_name_counts) ==
    IF requests = <<>> THEN <<>>
    ELSE LET base_name == base_name_of[Head(requests)]
             count     == count_get(test_name_counts, base_name)
         IN  <<_generate_test_function(Head(requests), count)>>
               \o generate_functions(Tail(requests),
                                     dict_update(test_name_counts, {<<base_name, count + 1>>}))

\* the mutant of _generate_test_file: the functions are emitted last record first
generate_test_file_reversed(requests) ==
    LET fs == generate_functions(requests, {})
    IN  [count     |-> Len(requests),
         functions |-> [i \in DOMAIN fs |-> fs[Len(fs) + 1 - i]]]

\* _generate_test_file: the header with the number of records, then the
\* functions in the order of the loop
_generate_test_file(requests) ==
    [count |-> Len(requests), functions |-> generate_functions(requests, {})]

MaxGen == 3

GenBatches == UNION { [1..n -> GenRecords] : n \in 1..MaxGen }

\* _generate_test_file(requests)
GenerateTestFile(requests) ==
    /\ gen_requests' = requests
    /\ gen_names' = generate_names(requests, {})
    /\ gen_suite' = _generate_test_file(requests)
    /\ UNCHANGED <<out_file, gen_ret, wf>>
    /\ UNCHANGED <<detVars, recVars, fpVars>>

InitGenerator == GenIdle /\ DetIdle /\ RecIdle /\ FpIdle

NextGenerator == \E b \in GenBatches : GenerateTestFile(b)

SpecGenerator == InitGenerator /\ [][NextGenerator]_vars

\* the record a position of the batch stands for
RecordAt(i) == GenRecord[gen_requests[i]]

\* C19: the suite generated from a non-empty batch holds one function per record,
\* the i-th function is the one built from the i-th record, and the header states
\* the number of records.
SuiteShape ==
    gen_requests # <<>> =>
        /\ Len(gen_suite.functions) = Len(gen_requests)
        /\ gen_suite.count = Len(gen_requests)
        /\ \A i \in DOMAIN gen_requests :
              /\ gen_suite.functions[i].method = RecordAt(i).method
              /\ gen_suite.functions[i].url = RecordAt(i).url
              /\ gen_suite.functions[i].name = gen_names[i]

\* C19 witness: a suite of three functions has been generated from three records
\* with three different URLs, the POST record first
SuiteShapeWitness ==
    /\ Len(gen_requests) = 3
    /\ gen_suite.count = 3
    /\ RecordAt(1).method = POST /\ RecordAt(2).method = GET
    /\ RecordAt(1).url # RecordAt(2).url
    /\ RecordAt(2).url # RecordAt(3).url
    /\ RecordAt(1).url # RecordAt(3).url
    /\ gen_suite.functions[1].method = POST
    /\ gen_suite.functions[3].url = RecordAt(3).url

(***************************************************************************)
(* APITestGenerator: the literals of one generated function                *)
(***************************************************************************)

\* a JSON value as json.load returns it: null, a boolean, a number, a string,
\* a list of values, or an object (its fields as <<name, value>> in order)
JNull       == [kind |-> "null",   b |-> FALSE, n |-> 0, s |-> <<>>, items |-> <<>>]
JBool(b)    == [kind |-> "bool",   b |-> b,     n |-> 0, s |-> <<>>, items |-> <<>>]
JNum(n)     == [kind |-> "number", b |-> FALSE, n |-> n, s |-> <<>>, items |-> <<>>]
JStr(s)     == [kind |-> "string", b |-> FALSE, n |-> 0, s |-> s,    items |-> <<>>]
JArr(items) == [kind |-> "array",  b |-> FALSE, n |-> 0, s |-> <<>>, items |-> items]
JObj(items) == [kind |-> "object", b |-> FALSE, n |-> 0, s |-> <<>>, items |-> items]

\* request_data.get('body') of a record without the key 'body'
JAbsent     == [kind |-> "absent", b |-> FALSE, n |-> 0, s |-> <<>>, items |-> <<>>]

\* what evaluating a piece of Python source gives when it is no well-formed
\* literal: the exception raised
PyError(e)  == [kind |-> "error",  b |-> FALSE, n |-> 0, s |-> e,    items |-> <<>>]

\* a piece of Python source: a name, a number, a string literal (its text with
\* the quotes), a list display or a dict display (its items as source)
Src(kind, text, items) == [kind |-> kind, text |-> text, items |-> items]

Quote     == "\""
Backslash == "\\"

\* json.dumps on a string: '"' and '\' are escaped, the text is quoted
RECURSIVE json_escape(_)
json_escape(s) ==
    IF s = <<>> THEN <<>>
    ELSE (IF Head(s) \in {Quote, Backslash} THEN <<Backslash, Head(s)>> ELSE <<Head(s)>>)
         \o json_escape(Tail(s))

\* json.dumps on null, a boolean, a number or a string
json_dumps_scalar(v) ==
    CASE v.kind = "null"   -> Src("name", <<"n","u","l","l">>, <<>>)
      [] v.kind = "bool"   -> Src("name", IF v.b THEN <<"t","r","u","e">>
                                          ELSE <<"f","a","l","s","e">>, <<>>)
      [] v.kind = "number" -> Src("number", str(v.n), <<>>)
      [] v.kind = "string" -> Src("string", <<Quote>> \o json_escape(v.s) \o <<Quote>>, <<>>)

\* json.dumps(body, indent=8, ensure_ascii=False), up to white space
json_dumps(v) ==
    CASE v.kind = "array"  ->
            Src("list", <<>>, [i \in DOMAIN v.items |-> json_dumps_scalar(v.items[i])])
      [] v.kind = "object" ->
            Src("dict", <<>>,
                [i \in DOMAIN v.items |->
                    <<json_dumps_scalar(JStr(v.items[i][1])), json_dumps_scalar(v.items[i][2])>>])
      [] OTHER -> json_dumps_scalar(v)

\* Python truth value of a recorded body: None, False, 0, '', [] and {} are false
truthy(v) ==
    CASE v.kind \in {"absent", "null"} -> FALSE
      [] v.kind = "bool"               -> v.b
      [] v.kind = "number"             -> v.n # 0
      [] v.kind = "string"             -> v.s # <<>>
      [] OTHER                         -> v.items # <<>>

PyNone == Src("name", <<"N","o","n","e">>, <<>>)

\* lines 101-105: the right-hand side of "data = ..."
data_literal(body) == IF truthy(body) THEN json_dumps(body) ELSE PyNone

\* f'method="{method}"' and f'url="{url}"', lines 123-124: the text is put
\* between double quotes as it is
quoted(text) == Src("string", <<Quote>> \o text \o <<Quote>>, <<>>)

\* the characters of a Python string literal after its opening quote: the value
\* up to the closing quote, or no value when the quote that closes it is not the
\* last character or is missing
RECURSIVE py_string_body(_, _)
py_string_body(rest, acc) ==
    IF rest = <<>> THEN PyError("SyntaxError")
    ELSE IF Head(rest) = Quote
         THEN (IF Len(rest) = 1 THEN JStr(acc) ELSE PyError("SyntaxError"))
    ELSE IF Head(rest) = Backslash /\ Len(rest) >= 2 /\ rest[2] \in {Quote, Backslash}
         THEN py_string_body(SubSeq(rest, 3, Len(rest)), Append(acc, rest[2]))
    ELSE py_string_body(Tail(rest), Append(acc, Head(rest)))

\* Python evaluating a name, a number or a string literal: None, True and False
\* are the only names defined
python_eval_atom(src) ==
    CASE src.kind = "name" ->
            (CASE src.text = <<"N","o","n","e">> -> JNull
               [] src.text = <<"T","r","u","e">> -> JBool(TRUE)
               [] src.text = <<"F","a","l","s","e">> -> JBool(FALSE)
               [] OTHER -> PyError("NameError"))
      [] src.kind = "number" -> JNum(CHOOSE n \in 0..9 : str(n) = src.text)
      [] src.kind = "string" -> py_string_body(Tail(src.text), <<>>)

\* Python evaluating a literal: a display raises when one of its items raises
python_eval(src) ==
    CASE src.kind = "list" ->
            LET vs == [i \in DOMAIN src.items |-> python_eval_atom(src.items[i])]
            IN  IF \E i \in DOMAIN vs : vs[i].kind = "error"
                THEN CHOOSE e \in {vs[i] : i \in DOMAIN vs} : e.kind = "error"
                ELSE JArr(vs)
      [] src.kind = "dict" ->
            LET ks == [i \in DOMAIN src.items |-> python_eval_atom(src.items[i][1])]
                vs == [i \in DOMAIN src.items |-> python_eval_atom(src.items[i][2])]
            IN  IF \E i \in DOMAIN vs : vs[i].kind = "error"
                THEN CHOOSE e \in {vs[i] : i \in DOMAIN vs} : e.kind = "error"
                ELSE JObj([i \in DOMAIN vs |-> <<ks[i].s, vs[i]>>])
      [] OTHER -> python_eval_atom(src)

\* the values a body may hold: every kind of scalar, with the false ones and a
\* string holding a quote; lists and objects of at most one scalar
LitScalars == { JNull, JBool(TRUE), JBool(FALSE), JNum(0), JNum(1),
                JStr(<<>>), JStr(<<"a">>), JStr(<<"a", Quote, "b">>) }

LitBodies ==
    {JAbsent} \cup LitScalars
    \cup {JArr(<<>>), JObj(<<>>)}
    \cup {JArr(<<v>>) : v \in LitScalars}
    \cup {JObj(<< <<<<"k">>, v>> >>) : v \in LitScalars}

\* the URLs of the records: plain, and with a quote in the query string
QQuote  == <<"q", "=", Quote, "x", Quote>>
LitUrls == { MkUrl(HostA, PathUsers, QNone), MkUrl(HostA, PathUsers, QX),
             MkUrl(HostA, PathUsers, QQuote) }

InitLiteral ==
    /\ arg \in [method : {GET, POST}, url : LitUrls, body : LitBodies]
    /\ ret = <<>>
    /\ fp_in = <<>> /\ fp_out = <<>>
    /\ DetIdle /\ RecIdle /\ GenIdle

\* _generate_test_function on one record: the literals it embeds
ApplyLiteral ==
    /\ ret = <<>>
    /\ ret' = << [data   |-> data_literal(arg.body),
                  method |-> quoted(arg.method),
                  url    |-> quoted(arg.url)] >>
    /\ UNCHANGED <<arg, fp_in, fp_out, detVars, recVars, genVars>>

NextLiteral == ApplyLiteral

SpecLiteral == InitLiteral /\ [][NextLiteral]_vars

\* C33: the generated function sets data to None exactly when the record has no
\* body; for a record with a body, the false values included ({}, [], "", 0,
\* false), data is a literal of the recorded body.
BodyEncoding ==
    ret # <<>> =>
        /\ (ret[1].data = PyNone) <=> (arg.body = JAbsent)
        /\ (arg.body # JAbsent /\ ~truthy(arg.body))
              => python_eval(ret[1].data) = arg.body

\* C34: every literal of the generated function evaluates, as Python, to the
\* value recorded: data to the body (None standing for no body), the method and
\* the URL to the recorded strings.
LiteralRoundTrip ==
    ret # <<>> =>
        /\ python_eval(ret[1].data) = (IF arg.body = JAbsent THEN JNull ELSE arg.body)
        /\ python_eval(ret[1].method) = JStr(arg.method)
        /\ python_eval(ret[1].url) = JStr(arg.url)

(***************************************************************************)
(* APITestGenerator: generate_from_requests and generate_from_file, the    *)
(* output file.  The output file is absent, holds a suite, or holds what   *)
(* an interrupted write left ("partial").                                  *)
(***************************************************************************)
MaxOut == 2

OutRecords == {1, 4, 5}

OutBatches == UNION { [1..n -> OutRecords] : n \in 0..MaxOut }

\* the source of generate_from_file: no such file, text json.load rejects, a JSON
\* object without 'requests', a batch, or a batch one of whose records was
\* written without its 'method' or 'url' key
SourceFiles ==
    { [kind |-> k, requests |-> <<>>] : k \in {"missing", "unparseable", "no_requests_field"} }
    \cup { [kind |-> "batch", requests |-> b] : b \in OutBatches }
    \cup { [kind |-> "malformed_record", requests |-> <<r>>] : r \in OutRecords }

\* the argument of generate_from_requests
SourceLists == { [kind |-> "list", requests |-> b] : b \in OutBatches }

\* load_json(requests_file) raises (line 163)
load_raises(source) == source.kind \in {"missing", "unparseable"}

\* data.get('requests', []) (line 164)
requests_of(source) ==
    IF source.kind \in {"batch", "list", "malformed_record"} THEN source.requests ELSE <<>>

\* request_data['method'], request_data['url'] raise KeyError (lines 62-63) while
\* the suite text is built, before the output file is opened
key_error(source) == source.kind = "malformed_record"

\* the mutant of is_empty: no batch is taken to be empty
is_empty_never(requests) == FALSE

\* `if not requests` (lines 166, 236)
is_empty(requests) == requests = <<>>

\* open(output_path, 'w') and f.write(test_code): open may raise (the file is left
\* as it was), the write may be cut short after open truncated the file
WriteOutcomes == {"ok", "open_fails", "write_fails"}

write_output(f, code, outcome) ==
    CASE outcome = "ok"          -> [kind |-> "suite", code |-> code]
      [] outcome = "open_fails"  -> f
      [] outcome = "write_fails" -> [kind |-> "partial", code |-> NoSuite]

\* the common body of generate_from_file (lines 163-184) and
\* generate_from_requests (lines 236-252)
Generate(call, source, outcome) ==
    LET requests == requests_of(source)
    IN  IF load_raises(source)
        THEN /\ outcome = "ok"
             /\ gen_ret' = [call |-> call, source |-> source, result |-> "raised"]
             /\ gen_requests' = <<>>
             /\ gen_names' = <<>>
             /\ gen_suite' = NoSuite
             /\ UNCHANGED out_file
        ELSE IF is_empty(requests)
        THEN /\ outcome = "ok"
             /\ gen_ret' = [call |-> call, source |-> source, result |-> ""]
             /\ gen_requests' = requests
             /\ gen_names' = <<>>
             /\ gen_suite' = NoSuite
             /\ UNCHANGED out_file
        ELSE IF key_error(source)
        THEN /\ outcome = "ok"
             /\ gen_ret' = [call |-> call, source |-> source, result |-> "raised"]
             /\ gen_requests' = requests
             /\ gen_names' = <<>>
             /\ gen_suite' = NoSuite
             /\ UNCHANGED out_file
        ELSE /\ gen_ret' = [call |-> call, source |-> source,
                             result |-> IF outcome = "ok" THEN "path" ELSE "raised"]
             /\ gen_requests' = requests
             /\ gen_names' = generate_names(requests, {})
             /\ gen_suite' = _generate_test_file(requests)
             /\ out_file' = write_output(out_file, _generate_test_file(requests), outcome)

GenerateFromFile(source, outcome) ==
    /\ Generate("generate_from_file", source, outcome)
    /\ UNCHANGED <<wf, detVars, recVars, fpVars>>

GenerateFromRequests(source, outcome) ==
    /\ Generate("generate_from_requests", source, outcome)
    /\ UNCHANGED <<wf, detVars, recVars, fpVars>>

InitOutput == GenIdle /\ DetIdle /\ RecIdle /\ FpIdle

NextOutput ==
    \/ \E src \in SourceFiles, o \in WriteOutcomes : GenerateFromFile(src, o)
    \/ \E src \in SourceLists, o \in WriteOutcomes : GenerateFromRequests(src, o)

SpecOutput == InitOutput /\ [][NextOutput]_vars

\* C20: generate_from_requests with an empty list, and generate_from_file on a
\* batch with an empty requests list, return the empty path without raising and
\* leave the output file as it was: absent when it was absent, unchanged when it
\* existed.
EmptyBatchNoOp ==
    [][ ( /\ gen_ret'.source.kind \in {"list", "batch"}
          /\ gen_ret'.source.requests = <<>> )
        => ( /\ gen_ret'.result = ""
             /\ out_file' = out_file ) ]_vars

\* C20 witness: generate_from_file on a batch with an empty requests list has
\* returned the empty path while the output file holds a suite of two functions
EmptyBatchWitness ==
    /\ gen_ret.call = "generate_from_file"
    /\ gen_ret.source = [kind |-> "batch", requests |-> <<>>]
    /\ gen_ret.result = ""
    /\ out_file.kind = "suite"
    /\ out_file.code.count = 2

\* C21: generate_from_file on a source that is not in the batch format
\* (unparseable JSON, an object without 'requests', a record without 'method' or
\* 'url') raises to its caller and leaves the output file as it was.
MalformedBatchFails ==
    [][ ( /\ gen_ret'.call = "generate_from_file"
          /\ gen_ret'.source.kind \in {"unparseable", "no_requests_field", "malformed_record"} )
        => ( /\ gen_ret'.result = "raised"
             /\ out_file' = out_file ) ]_vars

\* C4: the function names emitted by one generation pass are pairwise distinct.
NamesPairwiseDistinct ==
    \A i \in DOMAIN gen_names, j \in DOMAIN gen_names :
        i # j => gen_names[i] # gen_names[j]

\* the number of earlier records of the batch that derive the base name of record i
Occurrence(i) ==
    Cardinality({j \in 1..(i - 1) :
                    base_name_of[gen_requests[j]] = base_name_of[gen_requests[i]]})

\* C5: the k-th record (from 0, in input order) deriving a base name is emitted
\* under the base name when k = 0 and under base name, '_', k when k > 0.
CollisionSuffixRule ==
    /\ Len(gen_names) = Len(gen_requests)
    /\ \A i \in DOMAIN gen_requests :
          gen_names[i] = IF Occurrence(i) = 0
                         THEN base_name_of[gen_requests[i]]
                         ELSE base_name_of[gen_requests[i]] \o <<"_">> \o str(Occurrence(i))

TestGetUsers == <<"t","e","s","t","_","g","e","t","_","u","s","e","r","s">>

\* C5 witness: three records deriving test_get_users have been emitted as
\* test_get_users, test_get_users_1 and test_get_users_2
CollisionSuffixWitness ==
    /\ Len(gen_requests) = 3
    /\ \A i \in DOMAIN gen_requests : base_name_of[gen_requests[i]] = TestGetUsers
    /\ gen_names = << TestGetUsers,
                      TestGetUsers \o <<"_", "1">>,
                      TestGetUsers \o <<"_", "2">> >>

(***************************************************************************)
(* SmartTestRunner.run_full_workflow (run_tests.py): UI tests, detection,  *)
(* regeneration of the suite, API tests; one run after another             *)
(***************************************************************************)

MaxRuns == 2

MaxWf == 2

\* the records of the latest batch file, numbered as GenRecord: /users and /posts
WfRecords == {1, 5}

WfBatches == UNION { [1..n -> WfRecords] : n \in 0..MaxWf }

\* the record of the detector's tables that has the signature and the hash of
\* the record r of the batch
det_record_of(r) ==
    CHOOSE d \in DetRecords :
        /\ signature_of[d] = _generate_api_signature(GenRecord[r])
        /\ hash_of[d] = _generate_request_hash(GenRecord[r])

\* what detect_api_changes finds in data/requests (lines 93-115): no directory or
\* no requests_*.json, a latest file json.load rejects, one whose top level is
\* not an object, one without 'requests', or a batch
WfSources ==
    { [kind |-> k, requests |-> <<>>] :
        k \in {"none", "unparseable", "not_an_object", "no_requests_field"} }
    \cup { [kind |-> "batch", requests |-> b] : b \in WfBatches }

\* load_json(latest_file) or data.get('requests', []) raises (lines 106-107)
detect_raises(source) == source.kind \in {"unparseable", "not_an_object"}

\* main (lines 270-283) builds a SmartTestRunner, whose __init__ constructs the
\* detector (line 40), and run_full_workflow starts
RunnerStart ==
    /\ wf.pc \in {"none", "returned", "raised"}
    /\ wf.run < MaxRuns
    /\ file' = mkdir_parents(file)
    /\ detectors' = [detectors EXCEPT !["d1"] =
                        [alive |-> TRUE, cached_apis |-> _load_cache(file')]]
    /\ op' = "construct"
    /\ lastRun' = NoRun
    /\ wf' = [NoWorkflow EXCEPT !.pc = "ui", !.run = wf.run + 1]
    /\ UNCHANGED <<cleared, saving, gen_requests, gen_names, gen_suite, out_file, gen_ret>>
    /\ UNCHANGED <<recVars, fpVars>>

\* run_ui_tests (lines 45-81): pytest passes or fails; the sessions leave
\* whatever they flushed as the latest file of data/requests
RunUiTests(ui_ok, latest) ==
    /\ wf.pc = "ui"
    /\ wf' = [wf EXCEPT !.pc = "detect", !.ui_success = ui_ok, !.latest = latest]
    /\ UNCHANGED <<detVars, gen_requests, gen_names, gen_suite, out_file, gen_ret>>
    /\ UNCHANGED <<recVars, fpVars>>

\* detect_api_changes (lines 83-125): nothing to read and an empty batch give no
\* change; a file that cannot be read raises out of run_full_workflow; a batch
\* goes to detect_changes, which updates and saves the baseline on changes
DetectApiChanges(outcome) ==
    /\ wf.pc = "detect"
    /\ LET source   == wf.latest
           requests == [i \in DOMAIN source.requests |-> det_record_of(source.requests[i])]
           cached   == detectors["d1"].cached_apis
           save     == should_save(cached, requests)
           after    == IF save THEN dict_update(cached, current_signatures(requests))
                       ELSE cached
       IN  IF detect_raises(source)
           THEN /\ outcome = "ok"
                /\ wf' = [wf EXCEPT !.pc = "raised"]
                /\ UNCHANGED detVars
           ELSE IF requests = <<>>
           THEN /\ outcome = "ok"
                /\ wf' = [wf EXCEPT !.pc = "generate"]
                /\ UNCHANGED detVars
           ELSE /\ ~save => outcome = "ok"
                /\ detectors' = [detectors EXCEPT !["d1"].cached_apis = after]
                /\ file' = IF save THEN _save_cache(file, after, outcome) ELSE file
                /\ lastRun' = [det     |-> "d1",
                               batch   |-> requests,
                               new     |-> new_requests(cached, requests),
                               changed |-> changed_requests(cached, requests),
                               has     |-> has_changes(cached, requests),
                               save    |-> IF save THEN outcome ELSE "none",
                               fresh   |-> FALSE]
                /\ op' = "detect"
                /\ cleared' = {}
                /\ wf' = [wf EXCEPT !.pc = "generate",
                                    !.has_changes = has_changes(cached, requests),
                                    !.committed = save /\ outcome = "ok"]
                /\ UNCHANGED saving
    /\ UNCHANGED <<gen_requests, gen_names, gen_suite, out_file, gen_ret>>
    /\ UNCHANGED <<recVars, fpVars>>

\* lines 211-216 with regenerate_api_tests (lines 127-150): on changes the suite
\* is generated from the latest file, an error of the generation is logged only
RegenerateApiTests(outcome) ==
    /\ wf.pc = "generate"
    /\ IF wf.has_changes /\ wf.latest.kind # "none"
       THEN /\ Generate("generate_from_file", wf.latest, outcome)
            /\ wf' = [wf EXCEPT !.pc = "api",
                                !.regenerated = (gen_ret'.result = "path")]
       ELSE /\ outcome = "ok"
            /\ wf' = [wf EXCEPT !.pc = "api"]
            /\ UNCHANGED <<gen_requests, gen_names, gen_suite, out_file, gen_ret>>
    /\ UNCHANGED <<detVars, recVars, fpVars>>

\* run_api_tests (lines 152-184) and the return of run_full_workflow (line 232)
RunApiTests(api_ok) ==
    /\ wf.pc = "api"
    /\ wf' = [wf EXCEPT !.pc = "returned", !.api_ran = TRUE, !.api_success = api_ok,
                        !.result = (wf.ui_success /\ api_ok)]
    /\ UNCHANGED <<detVars, gen_requests, gen_names, gen_suite, out_file, gen_ret>>
    /\ UNCHANGED <<recVars, fpVars>>

InitWorkflow == DetIdle /\ RecIdle /\ GenIdle /\ FpIdle

NextWorkflow ==
    \/ RunnerStart
    \/ \E ok \in BOOLEAN, latest \in WfSources : RunUiTests(ok, latest)
    \/ \E o \in SaveOutcomes : DetectApiChanges(o)
    \/ \E o \in WriteOutcomes : RegenerateApiTests(o)
    \/ \E ok \in BOOLEAN : RunApiTests(ok)

SpecWorkflow == InitWorkflow /\ [][NextWorkflow]_vars

\* C38: when a workflow run returns after its detection run has written the
\* fingerprints of the batch to the baseline file, the suite file holds the suite
\* generated from that batch.
BaselineAndSuiteInStep ==
    (wf.pc = "returned" /\ wf.committed)
        => out_file = [kind |-> "suite", code |-> _generate_test_file(wf.latest.requests)]

\* C39: a workflow run ends only by returning ui_success AND api_success after
\* the API test stage has run.
StageIsolation ==
    wf.pc \in {"returned", "raised"}
        => /\ wf.pc = "returned"
           /\ wf.api_ran
           /\ wf.result = (wf.ui_success /\ wf.api_success)

====
